---- MODULE Spec2Model ----
(***************************************************************************)
(* Model of EnhancedStockApiService (src/app/services/stockApi.ts): the    *)
(* prediction engine calculateAdvancedPrediction with its indicator        *)
(* toolkit, and the service state around it (quote cache, subscriber sets, *)
(* polling timers); and of the page that uses it, StockPredictor          *)
(* (src/unnamed/part_001) with its StockChart (src/unnamed/part_004).      *)
(*                                                                         *)
(* Numbers.  The code computes in IEEE doubles; the model computes in      *)
(* decimal fixed point, every operation rounded to the nearest unit:       *)
(*   money (prices, averages, EMA, MACD)       1/PriceScale  dollars       *)
(*   ratios (returns, volatility, score, time decay, confidence, random)   *)
(*                                             1/RatioScale                *)
(*   oscillators (RSI, %K, %D)                 1/PctScale    points        *)
(*   the returned predictedPrice               1/MicroScale  dollars       *)
(* A double that is NaN or infinite is kept as such: a value that can be   *)
(* one is a record [kind |-> "num" | "nan" | "inf" | "ninf", v |-> Int],   *)
(* and comparisons with NaN are false as in the code.                      *)
(*                                                                         *)
(* Four specifications.  Spec is the service in use: subscriptions,        *)
(* timers, quote fetches, the clock, and a chart calling the prediction.   *)
(* SpecService is the service alone, with two symbols.                     *)
(* SpecEngine is the engine alone: one call of calculateAdvancedPrediction *)
(* or of one indicator (calculateRSI, calculateStochastic, calculateATR,   *)
(* findSupportResistanceLevels, calculateSMA, identifyPatterns), drawn     *)
(* from the input sets, is made.  SpecPage is the page on the service:     *)
(* loading and refreshing the list, selecting a stock, the chart's         *)
(* subscription and its delayed prediction.  The page stays as mounted in  *)
(* the other three.                                                        *)
(*                                                                         *)
(* Outside the model: historicalCache (fetchHistoricalData is an outcome   *)
(* drawn by the page), and wsConnections, which no method ever fills.  A   *)
(* quote served from a fresh cache entry reaches its continuation within   *)
(* the step that asked for it; a timer may fire at any time while it is    *)
(* live.                                                                   *)
(***************************************************************************)
EXTENDS Integers, Sequences, FiniteSets, TLC

VARIABLES
    cache,            \* this.cache: symbol -> {data, timestamp}
    subscribers,      \* this.subscribers: symbol -> set of callbacks
    updateIntervals,  \* this.updateIntervals: symbol -> timer handle
    timers,           \* the live setInterval timers: handle -> symbol, interval
    fetches,          \* fetchRealTimeStockData calls waiting for the provider
    now,              \* Date.now(), in milliseconds
    notified,         \* the callbacks invoked with a quote since the last cleanup
    predictions,      \* the calculateAdvancedPrediction calls made so far
    input,            \* the call drawn for an engine run
    indicator,        \* the indicator call made in an engine run
    page              \* the state of the StockPredictor page and its StockChart

vars == <<cache, subscribers, updateIntervals, timers, fetches, now, notified,
          predictions, input, indicator, page>>

serviceVars == <<cache, subscribers, updateIntervals, timers, fetches, now, notified>>

PriceScale == 10 * 100
RatioScale == 100 * 100
PctScale   == 10 * 10
MicroScale == 1000 * 1000

----------------------------------------------------------------------------
(* Arithmetic helpers of the number representation.                        *)

Abs(x) == IF x < 0 THEN -x ELSE x

Max2(a, b) == IF a >= b THEN a ELSE b

Min2(a, b) == IF a <= b THEN a ELSE b

\* a / b rounded to the nearest integer (b > 0), halves away from zero.
RDiv(a, b) == IF a >= 0 THEN (2 * a + b) \div (2 * b)
                        ELSE -((2 * (-a) + b) \div (2 * b))

RECURSIVE Pow10(_)
Pow10(d) == IF d = 0 THEN 1 ELSE 10 * Pow10(d - 1)

\* floor(a * 10^d / c) for a >= 0, c > 0, by long division: no intermediate
\* value exceeds 10 * c.
RECURSIVE LongDiv(_, _, _)
LongDiv(a, c, d) ==
    IF d = 0 THEN a \div c
    ELSE (a \div c) * Pow10(d) + LongDiv((a % c) * 10, c, d - 1)

\* a * 10^d / c rounded to the nearest integer, any sign of a (c > 0).
ScaledDiv(a, c, d) ==
    IF a >= 0 THEN RDiv(LongDiv(a, c, d + 1), 10)
              ELSE -RDiv(LongDiv(-a, c, d + 1), 10)

\* a * b / c rounded to the nearest integer (b >= 0, c > 0), with the
\* product split so that it stays inside the integer range.
MulDiv(a, b, c) ==
    LET m == Abs(a)
        r == (m \div c) * b + RDiv((m % c) * b, c)
    IN  IF a >= 0 THEN r ELSE -r

\* Math.sqrt on a non-negative integer: the integer square root.
RECURSIVE SqrtSearch(_, _, _)
SqrtSearch(x, lo, hi) ==
    IF lo >= hi THEN lo
    ELSE LET mid == (lo + hi + 1) \div 2
         IN  IF mid * mid <= x THEN SqrtSearch(x, mid, hi)
                               ELSE SqrtSearch(x, lo, mid - 1)

ISqrt(x) == SqrtSearch(x, 0, Min2(x, 46340))

\* Doubles that may be NaN or infinite.
Num(n) == [kind |-> "num", v |-> n]

NaN == [kind |-> "nan", v |-> 0]

PosInf == [kind |-> "inf", v |-> 0]

NegInf == [kind |-> "ninf", v |-> 0]

IsNum(x) == x.kind = "num"

\* The double division a / b of two integers, in units of 1/10^d.
XDiv(a, b, d) ==
    IF b = 0
    THEN IF a = 0 THEN NaN ELSE IF a > 0 THEN PosInf ELSE NegInf
    ELSE IF b > 0 THEN Num(ScaledDiv(a, b, d)) ELSE Num(ScaledDiv(-a, -b, d))

\* x > n and x < n for a double x and an integer n: false when x is NaN.
XGt(x, n) == x.kind = "inf" \/ (x.kind = "num" /\ x.v > n)

XLt(x, n) == x.kind = "ninf" \/ (x.kind = "num" /\ x.v < n)

\* Math.min(n, x): NaN when x is NaN.
XMin(n, x) ==
    CASE x.kind = "nan"  -> NaN
      [] x.kind = "inf"  -> Num(n)
      [] x.kind = "ninf" -> NegInf
      [] OTHER           -> Num(Min2(n, x.v))

\* x + y of two doubles.
XAdd(x, y) ==
    CASE x.kind = "nan" \/ y.kind = "nan" -> NaN
      [] x.kind = "inf"  -> IF y.kind = "ninf" THEN NaN ELSE PosInf
      [] x.kind = "ninf" -> IF y.kind = "inf" THEN NaN ELSE NegInf
      [] y.kind = "inf"  -> PosInf
      [] y.kind = "ninf" -> NegInf
      [] OTHER           -> Num(x.v + y.v)

----------------------------------------------------------------------------
(* Array helpers: Array.prototype.slice(-n), slice(a, b), reduce, map.     *)

\* s.slice(-n): the last n elements, all of s when it is shorter.
LastN(s, n) == IF Len(s) <= n THEN s ELSE SubSeq(s, Len(s) - n + 1, Len(s))

\* s.slice(0, n): the first n elements.
FirstN(s, n) == IF Len(s) <= n THEN s ELSE SubSeq(s, 1, n)

\* A loop "for (i = lo; i <= hi; i++) acc = Step(acc, i)".  The range is
\* halved so that the evaluation stays shallow, and the left half is
\* evaluated (left = left) before the right half starts from it.
RECURSIVE FoldRange(_, _, _, _)
FoldRange(Step(_, _), lo, hi, acc) ==
    IF lo > hi THEN acc
    ELSE IF lo = hi THEN Step(acc, lo)
    ELSE LET mid  == (lo + hi) \div 2
             left == FoldRange(Step, lo, mid, acc)
         IN  IF left = left THEN FoldRange(Step, mid + 1, hi, left) ELSE left

\* s.reduce((sum, x) => sum + x, 0)
Sum(s) == FoldRange(LAMBDA a, i : a + s[i], 1, Len(s), 0)

\* Math.max(...s) of a non-empty array.
MaxOf(s) == FoldRange(LAMBDA m, i : Max2(m, s[i]), 2, Len(s), s[1])

\* Math.min(...s) of a non-empty array.
MinOf(s) == FoldRange(LAMBDA m, i : Min2(m, s[i]), 2, Len(s), s[1])

Closes(data) == [i \in 1..Len(data) |-> data[i].close]

Highs(data) == [i \in 1..Len(data) |-> data[i].high]

Lows(data) == [i \in 1..Len(data) |-> data[i].low]

Volumes(data) == [i \in 1..Len(data) |-> data[i].volume]

----------------------------------------------------------------------------
(* The indicator toolkit (private methods of EnhancedStockApiService).     *)

\* calculateSMA on integers: 0 for an empty window, else the mean.
\* A variant that divides by one more than the number of prices.
calculateSMAOneMore(prices) == RDiv(Sum(prices), Len(prices) + 1)

calculateSMA(prices) ==
    IF Len(prices) = 0 THEN 0 ELSE RDiv(Sum(prices), Len(prices))

\* calculateSMA on doubles that may be NaN (the %K values of Stochastic).
calculateSMAX(values) ==
    IF Len(values) = 0 THEN Num(0)
    ELSE LET t == FoldRange(LAMBDA a, i : XAdd(a, values[i]), 1, Len(values), Num(0))
         IN  IF IsNum(t) THEN Num(RDiv(t.v, Len(values))) ELSE t

\* One step of the EMA loop: prices[i] * multiplier + ema * (1 - multiplier)
\* with multiplier = 2 / (period + 1).
EMAStep(ema, price, period) == RDiv(2 * price + (period - 1) * ema, period + 1)

\* calculateEMA: seeded with the first element, smoothed with 2/(period+1)
\* over the whole series; the last price (or 0) when the series is short.
calculateEMA(prices, period) ==
    IF Len(prices) < period
    THEN IF Len(prices) = 0 THEN 0 ELSE prices[Len(prices)]
    ELSE FoldRange(LAMBDA ema, i : EMAStep(ema, prices[i], period),
                   2, Len(prices), prices[1])

\* The gains and losses arrays of calculateRSI (one entry per price change).
Gains(prices) ==
    [i \in 1..(Len(prices) - 1) |->
        IF prices[i + 1] - prices[i] > 0 THEN prices[i + 1] - prices[i] ELSE 0]

Losses(prices) ==
    [i \in 1..(Len(prices) - 1) |->
        IF prices[i + 1] - prices[i] < 0 THEN Abs(prices[i + 1] - prices[i]) ELSE 0]


\* Variant of calculateRSI whose length test is off by one (period instead
\* of period + 1).
calculateRSIOffByOne(prices, period) ==
    IF Len(prices) < period THEN 50 * PctScale
    ELSE LET avgGain == ScaledDiv(Sum(LastN(Gains(prices), period)), period, 3)
             avgLoss == ScaledDiv(Sum(LastN(Losses(prices), period)), period, 3)
         IN  IF avgLoss = 0 THEN 100 * PctScale
             ELSE LET rs == ScaledDiv(avgGain, avgLoss, 4)
                  IN  100 * PctScale - ScaledDiv(RatioScale, RatioScale + rs, 4)

\* Variant of calculateRSI that reads a window without any change as
\* neutral (50) instead of 100.
calculateRSIFlatNeutral(prices, period) ==
    IF Len(prices) < period + 1 THEN 50 * PctScale
    ELSE LET avgGain == ScaledDiv(Sum(LastN(Gains(prices), period)), period, 3)
             avgLoss == ScaledDiv(Sum(LastN(Losses(prices), period)), period, 3)
         IN  IF avgLoss = 0 /\ avgGain = 0 THEN 50 * PctScale
             ELSE IF avgLoss = 0 THEN 100 * PctScale
             ELSE LET rs == ScaledDiv(avgGain, avgLoss, 4)
                  IN  100 * PctScale - ScaledDiv(RatioScale, RatioScale + rs, 4)

\* calculateRSI, in 1/PctScale points.  avgGain and avgLoss are kept in
\* 1/MicroScale dollars so that a non-zero loss never rounds to 0.
calculateRSI(prices, period) ==
    IF Len(prices) < period + 1 THEN 50 * PctScale
    ELSE LET avgGain == ScaledDiv(Sum(LastN(Gains(prices), period)), period, 3)
             avgLoss == ScaledDiv(Sum(LastN(Losses(prices), period)), period, 3)
         IN  IF avgLoss = 0 THEN 100 * PctScale
             ELSE LET rs == ScaledDiv(avgGain, avgLoss, 4)
                  IN  100 * PctScale - ScaledDiv(RatioScale, RatioScale + rs, 4)

\* The value of ema in calculateEMA's loop after each price: run[i] is what
\* calculateEMA(prices.slice(0, i), period) returns once i >= period.
EMARun(prices, period) ==
    FoldRange(LAMBDA run, i : Append(run, EMAStep(run[i - 1], prices[i], period)),
              2, Len(prices), <<prices[1]>>)

\* macdValues of calculateMACD: for every prefix of at least 27 prices, the
\* EMA(12) of the prefix minus its EMA(26).  The prefixes share one loop, so
\* both EMAs are read from a single pass over prices.
MacdValues(prices) ==
    LET n   == Len(prices) - 26
        r12 == EMARun(prices, 12)
        r26 == EMARun(prices, 26)
    IN  [j \in 1..n |-> r12[j + 26] - r26[j + 26]]

\* calculateMACD
calculateMACD(prices) ==
    LET macd   == calculateEMA(prices, 12) - calculateEMA(prices, 26)
        signal == calculateEMA(MacdValues(prices), 9)
    IN  [macd |-> macd, signal |-> signal, histogram |-> macd - signal]

\* %K of the period bars ending at bar i (1-based).
PercentK(highs, lows, closes, period, i) ==
    LET high == MaxOf(SubSeq(highs, i - period + 1, i))
        low  == MinOf(SubSeq(lows, i - period + 1, i))
    IN  XDiv(closes[i] - low, high - low, 4)

\* A variant whose length test lets a series one bar short of the period
\* through to the computation.
calculateStochasticShort(highs, lows, closes, period) ==
    IF Len(highs) < period - 1
    THEN [k |-> Num(50 * PctScale), d |-> Num(50 * PctScale)]
    ELSE LET highestHigh == MaxOf(LastN(highs, period))
             lowestLow   == MinOf(LastN(lows, period))
         IN  [k |-> XDiv(closes[Len(closes)] - lowestLow, highestHigh - lowestLow, 4),
              d |-> XDiv(closes[Len(closes)] - lowestLow, highestHigh - lowestLow, 4)]

\* calculateStochastic: {k: 50, d: 50} below period bars; no guard on a
\* zero high-low range, where the division yields NaN or an infinity.
\* last3 is kValues.slice(-3), the only part of kValues that is read.
calculateStochastic(highs, lows, closes, period) ==
    IF Len(highs) < period THEN [k |-> Num(50 * PctScale), d |-> Num(50 * PctScale)]
    ELSE LET highestHigh == MaxOf(LastN(highs, period))
             lowestLow   == MinOf(LastN(lows, period))
             k == XDiv(closes[Len(closes)] - lowestLow, highestHigh - lowestLow, 4)
             kValues == [j \in 1..(Len(closes) - period + 1) |->
                            PercentK(highs, lows, closes, period, j + period - 1)]
             count == Len(closes) - period + 1
             last3 == [j \in 1..Min2(3, count) |-> kValues[count - Min2(3, count) + j]]
         IN  [k |-> k, d |-> calculateSMAX(last3)]

\* The returns array of calculateVolatility, in 1/RatioScale.
Returns(prices) ==
    [i \in 1..(Len(prices) - 1) |->
        ScaledDiv(prices[i + 1] - prices[i], prices[i], 4)]

\* calculateVolatility: population standard deviation of the simple
\* returns, 0.02 below two prices.  In 1/RatioScale.
calculateVolatility(prices) ==
    IF Len(prices) < 2 THEN 2 * (RatioScale \div 100)
    ELSE LET returns  == Returns(prices)
             mean     == RDiv(Sum(returns), Len(returns))
             variance == FoldRange(
                 LAMBDA a, i : a + RDiv((returns[i] - mean) * (returns[i] - mean),
                                        Len(returns)),
                 1, Len(returns), 0)
         IN  ISqrt(variance)

\* The trueRanges array of calculateATR: one entry for each bar but the
\* first, in 1/PriceScale.
TrueRanges(data) ==
    [i \in 1..(Len(data) - 1) |->
        Max2(data[i + 1].high - data[i + 1].low,
             Max2(Abs(data[i + 1].high - data[i].close),
                  Abs(data[i + 1].low - data[i].close)))]

\* A variant that averages every true range of the series.
calculateATRWhole(data, period) ==
    IF Len(data) < period THEN 0 ELSE calculateSMA(TrueRanges(data))

\* calculateATR: 0 below period bars, else the mean of the last period
\* entries of trueRanges (all of them when there are fewer).
calculateATR(data, period) ==
    IF Len(data) < period THEN 0
    ELSE calculateSMA(LastN(TrueRanges(data), period))

\* A variant of the support test that looks at the two later bars only.
IsLocalMinForward(lows, i) ==
    lows[i] < lows[i + 1] /\ lows[i] < lows[i + 2]

\* The test of a local minimum (support) at index i.
IsLocalMin(lows, i) ==
    /\ lows[i] < lows[i - 1] /\ lows[i] < lows[i + 1]
    /\ lows[i] < lows[i - 2] /\ lows[i] < lows[i + 2]

\* The test of a local maximum (resistance) at index i.
IsLocalMax(highs, i) ==
    /\ highs[i] > highs[i - 1] /\ highs[i] > highs[i + 1]
    /\ highs[i] > highs[i - 2] /\ highs[i] > highs[i + 2]

\* A variant that keeps the first three hits of each kind (slice(0, 3)).
findSupportResistanceLevelsOldest(highs, lows, prices) ==
    LET support ==
            FoldRange(LAMBDA a, i : IF IsLocalMin(lows, i) THEN Append(a, lows[i]) ELSE a,
                      3, Len(prices) - 2, << >>)
        resistance ==
            FoldRange(LAMBDA a, i : IF IsLocalMax(highs, i) THEN Append(a, highs[i]) ELSE a,
                      3, Len(prices) - 2, << >>)
    IN  [support |-> FirstN(support, 3), resistance |-> FirstN(resistance, 3)]

\* A variant that returns the last three hits of each kind latest first.
findSupportResistanceLevelsRecentFirst(highs, lows, prices) ==
    LET support ==
            FoldRange(LAMBDA a, i : IF IsLocalMin(lows, i) THEN Append(a, lows[i]) ELSE a,
                      3, Len(prices) - 2, << >>)
        resistance ==
            FoldRange(LAMBDA a, i : IF IsLocalMax(highs, i) THEN Append(a, highs[i]) ELSE a,
                      3, Len(prices) - 2, << >>)
        reversed(s) == [j \in 1..Len(s) |-> s[Len(s) + 1 - j]]
    IN  [support    |-> reversed(LastN(support, 3)),
         resistance |-> reversed(LastN(resistance, 3))]

\* findSupportResistanceLevels: strict local extrema over offsets 1 and 2,
\* indices 2 .. length - 3 (0-based); the last three of each kind.
findSupportResistanceLevels(highs, lows, prices) ==
    LET support ==
            FoldRange(LAMBDA a, i : IF IsLocalMin(lows, i) THEN Append(a, lows[i]) ELSE a,
                      3, Len(prices) - 2, << >>)
        resistance ==
            FoldRange(LAMBDA a, i : IF IsLocalMax(highs, i) THEN Append(a, highs[i]) ELSE a,
                      3, Len(prices) - 2, << >>)
    IN  [support |-> LastN(support, 3), resistance |-> LastN(resistance, 3)]

\* A variant whose Engulfing test compares the last bar with the bar two
\* before it.
identifyPatternsThreeBack(data) ==
    IF Len(data) < 10 THEN << >>
    ELSE LET lastCandle  == data[Len(data)]
             bodySize    == Abs(lastCandle.close - lastCandle.open)
             lowerShadow == Min2(lastCandle.open, lastCandle.close) - lastCandle.low
             upperShadow == lastCandle.high - Max2(lastCandle.open, lastCandle.close)
             prev == data[Len(data) - 2]
             curr == data[Len(data)]
         IN  (IF lowerShadow > bodySize * 2 /\ 2 * upperShadow < bodySize
              THEN <<[name |-> "Hammer", type |-> "bullish", strength |-> 1500]>>
              ELSE << >>)
          \o (IF 10 * bodySize < lastCandle.high - lastCandle.low
              THEN <<[name |-> "Doji", type |-> "neutral", strength |-> 1000]>>
              ELSE << >>)
          \o (IF /\ prev.close < prev.open /\ curr.close > curr.open
                 /\ curr.close > prev.open /\ curr.open < prev.close
              THEN <<[name |-> "Bullish Engulfing", type |-> "bullish", strength |-> 2000]>>
              ELSE IF /\ prev.close > prev.open /\ curr.close < curr.open
                      /\ curr.close < prev.open /\ curr.open > prev.close
              THEN <<[name |-> "Bearish Engulfing", type |-> "bearish", strength |-> 2000]>>
              ELSE << >>)

\* identifyPatterns: Hammer, Doji and Engulfing on the last one or two bars
\* of the window; nothing below 10 bars.
identifyPatterns(data) ==
    IF Len(data) < 10 THEN << >>
    ELSE LET lastCandle  == data[Len(data)]
             bodySize    == Abs(lastCandle.close - lastCandle.open)
             lowerShadow == Min2(lastCandle.open, lastCandle.close) - lastCandle.low
             upperShadow == lastCandle.high - Max2(lastCandle.open, lastCandle.close)
             prev == data[Len(data) - 1]
             curr == data[Len(data)]
         IN  (IF lowerShadow > bodySize * 2 /\ 2 * upperShadow < bodySize
              THEN <<[name |-> "Hammer", type |-> "bullish", strength |-> 1500]>>
              ELSE << >>)
          \o (IF 10 * bodySize < lastCandle.high - lastCandle.low
              THEN <<[name |-> "Doji", type |-> "neutral", strength |-> 1000]>>
              ELSE << >>)
          \o (IF /\ prev.close < prev.open /\ curr.close > curr.open
                 /\ curr.close > prev.open /\ curr.open < prev.close
              THEN <<[name |-> "Bullish Engulfing", type |-> "bullish", strength |-> 2000]>>
              ELSE IF /\ prev.close > prev.open /\ curr.close < curr.open
                      /\ curr.close < prev.open /\ curr.open > prev.close
              THEN <<[name |-> "Bearish Engulfing", type |-> "bearish", strength |-> 2000]>>
              ELSE << >>)

----------------------------------------------------------------------------
(* calculateAdvancedPrediction.                                            *)

RECURSIVE ExpSeries(_, _, _, _)
ExpSeries(num, den, k, term) ==
    IF term = 0 THEN 0
    ELSE term + ExpSeries(num, den, k + 1, MulDiv(term, num, den * (k + 1)))

\* Math.exp(-num / den) for 0 <= num / den <= 2, in 1/RatioScale: the
\* reciprocal of the power series of e^(num/den) summed in 1/MicroScale.
ExpNeg(num, den) ==
    ScaledDiv(MicroScale, ExpSeries(num, den, 0, MicroScale), 4)

\* Number(x.toFixed(2)) of a ratio: rounded to two decimals.
ToFixed2(x) == RDiv(x, RatioScale \div 100) * (RatioScale \div 100)

\* The running pair (sentimentScore, signals) of the sentiment analysis.
Acc(score, sigs) == [score |-> score, signals |-> sigs]

\* Moving Average signals (price > sma20 > sma50, or the mirror).
MASignal(a, currentPrice, sma20, sma50) ==
    IF currentPrice > sma20 /\ sma20 > sma50
    THEN Acc(a.score + 3000, Append(a.signals, "Bullish MA crossover"))
    ELSE IF currentPrice < sma20 /\ sma20 < sma50
    THEN Acc(a.score - 3000, Append(a.signals, "Bearish MA crossover"))
    ELSE a

\* A variant of the EMA signals that is silent when the two EMAs are equal.
EMASignalWithTie(a, ema12, ema26) ==
    IF ema12 > ema26
    THEN Acc(a.score + 2000, Append(a.signals, "Bullish EMA trend"))
    ELSE IF ema12 < ema26
    THEN Acc(a.score - 2000, Append(a.signals, "Bearish EMA trend"))
    ELSE a

\* EMA signals: bullish when ema12 > ema26, bearish in every other case.
EMASignal(a, ema12, ema26) ==
    IF ema12 > ema26
    THEN Acc(a.score + 2000, Append(a.signals, "Bullish EMA trend"))
    ELSE Acc(a.score - 2000, Append(a.signals, "Bearish EMA trend"))

\* RSI signals.
RSISignal(a, rsi) ==
    IF rsi > 70 * PctScale
    THEN Acc(a.score - 2500, Append(a.signals, "Overbought (RSI > 70)"))
    ELSE IF rsi < 30 * PctScale
    THEN Acc(a.score + 2500, Append(a.signals, "Oversold (RSI < 30)"))
    ELSE a

\* MACD signals.
MACDSignal(a, macd) ==
    IF macd.macd > macd.signal /\ macd.histogram > 0
    THEN Acc(a.score + 2000, Append(a.signals, "Bullish MACD crossover"))
    ELSE IF macd.macd < macd.signal /\ macd.histogram < 0
    THEN Acc(a.score - 2000, Append(a.signals, "Bearish MACD crossover"))
    ELSE a

\* Stochastic signals (%K and %D may be NaN: then neither branch is taken).
StochasticSignal(a, stochastic) ==
    IF XGt(stochastic.k, 80 * PctScale) /\ XGt(stochastic.d, 80 * PctScale)
    THEN Acc(a.score - 1500, Append(a.signals, "Overbought (Stochastic)"))
    ELSE IF XLt(stochastic.k, 20 * PctScale) /\ XLt(stochastic.d, 20 * PctScale)
    THEN Acc(a.score + 1500, Append(a.signals, "Oversold (Stochastic)"))
    ELSE a

\* A variant of the volume confirmation whose thresholds are inclusive.
VolumeSignalInclusive(a, volumeRatio) ==
    IF volumeRatio.kind = "inf" \/ (volumeRatio.kind = "num" /\ volumeRatio.v >= 15000)
    THEN Acc(RDiv(a.score * 12, 10), Append(a.signals, "High volume confirmation"))
    ELSE IF volumeRatio.kind = "ninf"
            \/ (volumeRatio.kind = "num" /\ volumeRatio.v <= 5000)
    THEN Acc(RDiv(a.score * 8, 10), Append(a.signals, "Low volume warning"))
    ELSE a

\* Volume confirmation: the running score times 1.2 or 0.8.
VolumeSignal(a, volumeRatio) ==
    IF XGt(volumeRatio, 15000)
    THEN Acc(RDiv(a.score * 12, 10), Append(a.signals, "High volume confirmation"))
    ELSE IF XLt(volumeRatio, 5000)
    THEN Acc(RDiv(a.score * 8, 10), Append(a.signals, "Low volume warning"))
    ELSE a

\* levels.some(level => Math.abs(currentPrice - level) / currentPrice < 0.02):
\* the quotient is below 0.02 for a negative price and NaN or Infinity for 0.
Near(levels, currentPrice) ==
    \E i \in 1..Len(levels) :
        IF currentPrice > 0 THEN Abs(currentPrice - levels[i]) * 50 < currentPrice
        ELSE currentPrice < 0

\* Support/Resistance levels: both may fire.
SupportResistanceSignal(a, supportResistance, currentPrice) ==
    LET b == IF Near(supportResistance.support, currentPrice)
             THEN Acc(a.score + 1000, Append(a.signals, "Near support level"))
             ELSE a
    IN  IF Near(supportResistance.resistance, currentPrice)
        THEN Acc(b.score - 1000, Append(b.signals, "Near resistance level"))
        ELSE b

\* Pattern recognition: patterns.forEach(...), neutral patterns skipped.
RECURSIVE PatternSignals(_, _, _)
PatternSignals(a, patterns, i) ==
    IF i > Len(patterns) THEN a
    ELSE PatternSignals(
           IF patterns[i].type = "bullish"
           THEN Acc(a.score + patterns[i].strength,
                    Append(a.signals, "Bullish pattern: " \o patterns[i].name))
           ELSE IF patterns[i].type = "bearish"
           THEN Acc(a.score - patterns[i].strength,
                    Append(a.signals, "Bearish pattern: " \o patterns[i].name))
           ELSE a,
           patterns, i + 1)


\* Variant of the trend rule with inclusive thresholds (>= 0.1, <= -0.1).
TrendOfInclusive(sentimentScore) ==
    IF sentimentScore >= 1000 THEN "bullish"
    ELSE IF sentimentScore <= -1000 THEN "bearish"
    ELSE "neutral"

\* sentimentScore > 0.1 ? 'bullish' : sentimentScore < -0.1 ? 'bearish' : 'neutral'
TrendOf(sentimentScore) ==
    IF sentimentScore > 1000 THEN "bullish"
    ELSE IF sentimentScore < -1000 THEN "bearish" ELSE "neutral"


\* Variant of the signal limit that keeps the last five (slice(-5)).
LimitSignalsLast(signals) == LastN(signals, 5)

\* signals.slice(0, 5)
LimitSignals(signals) == FirstN(signals, 5)

\* Math.min(0.95, Math.max(0.1, raw)) then Number(confidence.toFixed(2)).
ClampConfidence(raw) ==
    CASE raw.kind = "nan"  -> NaN
      [] raw.kind = "inf"  -> Num(9500)
      [] raw.kind = "ninf" -> Num(1000)
      [] OTHER             -> Num(ToFixed2(Min2(9500, Max2(1000, raw.v))))

\* The confidence composite before clamping.
RawConfidence(dataQuality, volumeConfidence, volatilityConfidence, timeConfidence) ==
    IF ~IsNum(volumeConfidence) THEN volumeConfidence
    ELSE Num(RDiv(8 * RDiv(3 * dataQuality + 2 * volumeConfidence.v
                           + 3 * volatilityConfidence + 2 * timeConfidence, 10), 10)
             + 2000)

\* currentPrice * (1 + change), change in 1/RatioScale; result in money units.
ApplyChange(currentPrice, change) ==
    IF RatioScale + change >= 0
    THEN MulDiv(currentPrice, RatioScale + change, RatioScale)
    ELSE -MulDiv(currentPrice, -(RatioScale + change), RatioScale)

\* A variant of the fallback whose random walk is ten times as wide.
FallbackPredictionWide(currentPrice, random) ==
    LET randomWalk == (random - RatioScale \div 2) * 20
    IN  [predictedPrice |-> IF currentPrice >= 0
                            THEN MulDiv(currentPrice, MicroScale + randomWalk, PriceScale)
                            ELSE -MulDiv(-currentPrice, MicroScale + randomWalk, PriceScale),
         confidence     |-> Num(3000),
         trend          |-> IF randomWalk > 0 THEN "bullish" ELSE "bearish",
         signals        |-> <<"Insufficient historical data">>,
         sentimentScore |-> 0,
         collected      |-> <<"Insufficient historical data">>,
         volatility     |-> 0,
         locals         |-> [atr |-> 0],
         full           |-> FALSE]

\* A variant of the fallback that calls a random step of exactly 0 bullish.
FallbackPredictionZeroBullish(currentPrice, random) ==
    LET randomWalk == (random - RatioScale \div 2) * 2
    IN  [predictedPrice |-> IF currentPrice >= 0
                            THEN MulDiv(currentPrice, MicroScale + randomWalk, PriceScale)
                            ELSE -MulDiv(-currentPrice, MicroScale + randomWalk, PriceScale),
         confidence     |-> Num(3000),
         trend          |-> IF randomWalk >= 0 THEN "bullish" ELSE "bearish",
         signals        |-> <<"Insufficient historical data">>,
         sentimentScore |-> 0,
         collected      |-> <<"Insufficient historical data">>,
         volatility     |-> 0,
         locals         |-> [atr |-> 0],
         full           |-> FALSE]

\* The fallback below 50 bars: a random walk of at most 1%.  randomWalk is
\* kept in 1/MicroScale; random is Math.random() in 1/RatioScale.
FallbackPrediction(currentPrice, random) ==
    LET randomWalk == (random - RatioScale \div 2) * 2
    IN  [predictedPrice |-> IF currentPrice >= 0
                            THEN MulDiv(currentPrice, MicroScale + randomWalk, PriceScale)
                            ELSE -MulDiv(-currentPrice, MicroScale + randomWalk, PriceScale),
         confidence     |-> Num(3000),
         trend          |-> IF randomWalk > 0 THEN "bullish" ELSE "bearish",
         signals        |-> <<"Insufficient historical data">>,
         sentimentScore |-> 0,
         collected      |-> <<"Insufficient historical data">>,
         volatility     |-> 0,
         locals         |-> [atr |-> 0],
         full           |-> FALSE]

\* The full model on at least 50 bars.  Besides the returned fields the
\* record keeps locals of the call: the final sentimentScore, the signals
\* array before slice(0, 5), the volatility, and in locals the indicator
\* values and the running score and signals after the Stochastic step
\* (indicatorScore, indicatorSignals) and after the volume step
\* (volumeScore, volumeSignals).
FullPrediction(currentPrice, historicalData, volume, marketCap, timeHorizonMinutes, random) ==
    LET prices  == Closes(historicalData)
        volumes == Volumes(historicalData)
        highs   == Highs(historicalData)
        lows    == Lows(historicalData)
        sma20   == calculateSMA(LastN(prices, 20))
        sma50   == calculateSMA(LastN(prices, 50))
        ema12   == calculateEMA(prices, 12)
        ema26   == calculateEMA(prices, 26)
        supportResistance == findSupportResistanceLevels(highs, lows, prices)
        avgVolume   == calculateSMA(LastN(volumes, 20))
        volumeRatio == XDiv(volume, avgVolume, 4)
        patterns    == identifyPatterns(LastN(historicalData, 20))
        rsi         == calculateRSI(prices, 14)
        macd        == calculateMACD(prices)
        stochastic  == calculateStochastic(highs, lows, prices, 14)
        volatility  == calculateVolatility(LastN(prices, 20))
        atr         == calculateATR(LastN(historicalData, 14), 14)
        a1 == MASignal(Acc(0, << >>), currentPrice, sma20, sma50)
        a2 == EMASignal(a1, ema12, ema26)
        a3 == RSISignal(a2, rsi)
        a4 == MACDSignal(a3, macd)
        a5 == StochasticSignal(a4, stochastic)
        a6 == VolumeSignal(a5, volumeRatio)
        a7 == SupportResistanceSignal(a6, supportResistance, currentPrice)
        a8 == PatternSignals(a7, patterns, 1)
        sentimentScore  == a8.score
        timeDecay       == ExpNeg(timeHorizonMinutes, 120)
        marketCapFactor == IF marketCap > 1000000000 THEN 8000 ELSE 12000
        baseChange      == MulDiv(MulDiv(MulDiv(sentimentScore, volatility, RatioScale),
                                         timeDecay, RatioScale),
                                  marketCapFactor, RatioScale)
        randomComponent == RDiv(2 * MulDiv(random - RatioScale \div 2, volatility, RatioScale), 10)
        totalChange     == baseChange + randomComponent
        predictedPrice  == ApplyChange(currentPrice, totalChange)
        dataQuality     == Min2(RatioScale, Len(historicalData) * (RatioScale \div 100))
        volumeConfidence     == XMin(RatioScale, volumeRatio)
        volatilityConfidence == RatioScale - Min2(RatioScale, volatility * 10)
        confidence == ClampConfidence(RawConfidence(dataQuality, volumeConfidence,
                                                    volatilityConfidence, timeDecay))
    IN  [predictedPrice |-> RDiv(predictedPrice, PriceScale \div 100)
                              * (MicroScale \div 100),
         confidence     |-> confidence,
         trend          |-> TrendOf(sentimentScore),
         signals        |-> LimitSignals(a8.signals),
         sentimentScore |-> sentimentScore,
         collected      |-> a8.signals,
         volatility     |-> volatility,
         locals         |-> [sma20 |-> sma20, sma50 |-> sma50,
                             ema12 |-> ema12, ema26 |-> ema26,
                             rsi |-> rsi, macd |-> macd, stochastic |-> stochastic,
                             volumeRatio |-> volumeRatio,
                             supportResistance |-> supportResistance,
                             patterns |-> patterns, atr |-> atr,
                             indicatorScore |-> a5.score,
                             indicatorSignals |-> a5.signals,
                             volumeScore |-> a6.score,
                             volumeSignals |-> a6.signals],
         full           |-> TRUE]


\* Variant of calculateAdvancedPrediction whose fallback threshold is 49 bars.
calculateAdvancedPredictionFrom49(currentPrice, historicalData, volume, marketCap, timeHorizonMinutes, random) ==
    IF Len(historicalData) < 49
    THEN FallbackPrediction(currentPrice, random)
    ELSE FullPrediction(currentPrice, historicalData, volume, marketCap,
                        timeHorizonMinutes, random)

\* Variant of calculateAdvancedPrediction that consults the quote cache: it
\* runs the full model only while the cache is empty.
calculateAdvancedPredictionCacheAware(currentPrice, historicalData, volume, marketCap, timeHorizonMinutes, random) ==
    IF Len(historicalData) < 50 \/ DOMAIN cache # {}
    THEN FallbackPrediction(currentPrice, random)
    ELSE FullPrediction(currentPrice, historicalData, volume, marketCap,
                        timeHorizonMinutes, random)

\* calculateAdvancedPrediction(currentPrice, historicalData, volume,
\* marketCap, timeHorizonMinutes), with the value Math.random() returns.
calculateAdvancedPrediction(currentPrice, historicalData, volume, marketCap, timeHorizonMinutes, random) ==
    IF Len(historicalData) < 50
    THEN FallbackPrediction(currentPrice, random)
    ELSE FullPrediction(currentPrice, historicalData, volume, marketCap,
                        timeHorizonMinutes, random)

----------------------------------------------------------------------------
(* Inputs: the histories the prediction is called with.  A bar is a        *)
(* HistoricalData record; prices are in 1/PriceScale dollars and every bar *)
(* is well formed (low <= open, close <= high, close > 0).                 *)

Bar(t, o, h, l, c, v) ==
    [timestamp |-> t, open |-> o, high |-> h, low |-> l, close |-> c, volume |-> v]

\* n bars with open = high = low = close = price.
FlatHistory(n, price, vol) ==
    [i \in 1..n |-> Bar(i, price, price, price, price, vol)]

\* Closes c(1) = start, c(i+1) = c(i) * num / den.
GeometricCloses(n, start, num, den) ==
    IF n = 0 THEN << >>
    ELSE FoldRange(LAMBDA a, i : Append(a, RDiv(a[Len(a)] * num, den)),
                   2, n, <<start>>)

\* n bars whose close is num/den times the previous close; each bar opens
\* at the previous close and has no shadows.
TrendHistory(n, start, num, den, vol) ==
    LET c == GeometricCloses(n, start, num, den)
    IN  [i \in 1..n |->
           LET o == IF i = 1 THEN RDiv(start * den, num) ELSE c[i - 1]
           IN  Bar(i, o, Max2(o, c[i]), Min2(o, c[i]), c[i], vol)]

\* n shadowless bars whose closes alternate between hi and lo, ending at lo.
SwingHistory(n, hi, lo, vol) ==
    [i \in 1..n |->
       LET c == IF (n - i) % 2 = 0 THEN lo ELSE hi
           o == IF (n - i) % 2 = 0 THEN hi ELSE lo
       IN  Bar(i, o, hi, lo, c, vol)]

\* The position of bar i on a triangle wave: 0 .. period \div 2 .. 0.
Tri(i, period) ==
    LET ph == i % period IN IF ph <= period \div 2 THEN ph ELSE period - ph

\* n bars on a triangle wave around mid: each bar opens at the previous
\* close; a bar closing at a crest has an upper shadow and a bar closing at
\* a trough a lower shadow, so crests and troughs are strict extrema.
WaveHistory(n, mid, step, period, vol) ==
    [i \in 1..n |->
       LET c == mid + step * Tri(i, period)
           o == mid + step * Tri(i - 1, period)
       IN  Bar(i, o,
               Max2(o, c) + (IF Tri(i, period) = period \div 2 THEN step ELSE 0),
               Min2(o, c) - (IF Tri(i, period) = 0 THEN step ELSE 0),
               c, vol)]

\* history with its last Len(tail) bars replaced by the bars of tail.
WithTail(history, tail) ==
    IF Len(history) < Len(tail) THEN history
    ELSE [i \in 1..Len(history) |->
            IF i <= Len(history) - Len(tail) THEN history[i]
            ELSE [tail[i - (Len(history) - Len(tail))] EXCEPT !.timestamp = i]]

\* A hammer: small body, long lower shadow, almost no upper shadow.
HammerTail(p, vol) == <<Bar(0, p, p + 250, p - 1000, p + 200, vol)>>

\* A doji: open = close inside a range.
DojiTail(p, vol) == <<Bar(0, p, p + 500, p - 500, p, vol)>>

\* A falling bar engulfed by a rising bar.
BullishEngulfingTail(p, vol) ==
    <<Bar(0, p + 1000, p + 1000, p, p, vol),
      Bar(0, p - 500, p + 1500, p - 500, p + 1500, vol)>>

\* A rising bar engulfed by a falling bar.
BearishEngulfingTail(p, vol) ==
    <<Bar(0, p, p + 1000, p, p + 1000, vol),
      Bar(0, p + 1500, p + 1500, p - 500, p - 500, vol)>>

----------------------------------------------------------------------------
(* The calls the engine is run on.  A shape names a family of              *)
(* histories; History(shape, n) is its member with n bars.                 *)

\* The longest history of the input set.
MaxBars == 61

Lengths == {0, 14, 49, 50, 60, MaxBars}

Shapes == {"flat", "flat0", "penny", "rise", "fall", "swing", "wave8", "wave20",
           "hammer", "doji", "bullEngulf", "bearEngulf"}

\* The volume of every bar of a shape.
BarVolume(shape) ==
    IF shape = "flat" THEN 100000 ELSE IF shape = "flat0" THEN 0 ELSE 1000

History(shape, n) ==
    LET v == BarVolume(shape)
    IN  CASE shape = "flat"   -> FlatHistory(n, 100 * PriceScale, v)
          [] shape = "flat0"  -> FlatHistory(n, 100 * PriceScale, v)
          [] shape = "penny"  -> FlatHistory(n, 4, v)
          [] shape = "rise"   -> TrendHistory(n, 100 * PriceScale, 101, 100, v)
          [] shape = "fall"   -> TrendHistory(n, 100 * PriceScale, 99, 100, v)
          [] shape = "swing"  -> SwingHistory(n, 100 * PriceScale, 20 * PriceScale, v)
          [] shape = "wave8"  -> WaveHistory(n, 100 * PriceScale, 500, 8, v)
          [] shape = "wave20" -> WaveHistory(n, 100 * PriceScale, 300, 20, v)
          [] shape = "hammer" ->
                WithTail(WaveHistory(n, 100 * PriceScale, 500, 8, v),
                         HammerTail(100 * PriceScale, v))
          [] shape = "doji" ->
                WithTail(WaveHistory(n, 100 * PriceScale, 300, 20, v),
                         DojiTail(100 * PriceScale, v))
          [] shape = "bullEngulf" ->
                WithTail(TrendHistory(n, 100 * PriceScale, 101, 100, v),
                         BullishEngulfingTail(100 * PriceScale, v))
          [] OTHER ->
                WithTail(TrendHistory(n, 100 * PriceScale, 99, 100, v),
                         BearishEngulfingTail(100 * PriceScale, v))

\* The last close of a history (100 dollars for the empty history).
LastClose(history) ==
    IF Len(history) = 0 THEN 100 * PriceScale ELSE history[Len(history)].close

\* The arguments of one call, with the value Math.random() will return.
\* m is the volume in halves of the volume of a bar.
PredictionCall(shape, n, nudge, m, marketCap, horizon, random) ==
    LET history == History(shape, n)
    IN  [op                 |-> "predict",
         currentPrice       |-> Max2(1, RDiv(LastClose(history) * nudge, 100)),
         historicalData     |-> history,
         volume             |-> (m * Max2(BarVolume(shape), 10)) \div 2,
         marketCap          |-> marketCap,
         timeHorizonMinutes |-> horizon,
         random             |-> random]

\* Every shape and length at the last close, with 0, 0.5, 1, 1.5 and 2 times
\* the volume of a bar; eight shapes at 60 bars with every other argument
\* varied.
PredictionInputs ==
    { PredictionCall(shape, n, 100, m, 2000000000, 30, RatioScale \div 2) :
          shape \in Shapes, n \in Lengths, m \in 0..4 }
    \cup
    { PredictionCall(c[1], 60, c[2], c[3], c[4], c[5], c[6]) :
          c \in {"flat", "flat0", "rise", "fall", "swing", "wave8", "wave20", "hammer"}
                \X {97, 100, 103} \X {0, 2, 4} \X {0, 2000000000}
                \X {1, 30, 240} \X {0, RatioScale \div 2, RatioScale - 1} }

\* Calls below 50 bars, with Math.random() returning 0, the values next to
\* and at 0.5, and the largest value below 1.
FallbackInputs ==
    { PredictionCall(c[1], c[2], c[3], 2, 2000000000, 30, c[4]) :
          c \in {"flat", "penny", "rise", "swing"} \X {0, 14, 49} \X {97, 100, 103}
                \X {0, RatioScale \div 2 - 1, RatioScale \div 2,
                    RatioScale \div 2 + 1, RatioScale - 1} }

\* All series of at most n prices drawn from set.
RECURSIVE SeriesUpTo(_, _)
SeriesUpTo(set, n) ==
    IF n = 0 THEN {<< >>}
    ELSE LET shorter == SeriesUpTo(set, n - 1)
         IN  shorter \cup { Append(s, x) : s \in shorter, x \in set }

\* The longest series of the short RSI calls.
MaxSeries == 5

\* RSI calls: every short series over three prices with a short period,
\* and the closes of every history with the default period 14.
RSIInputs ==
    { [op |-> "rsi", prices |-> s, period |-> p] :
          s \in SeriesUpTo({1 * PriceScale, 2 * PriceScale, 3 * PriceScale}, MaxSeries),
          p \in {2, 3, 4} }
    \cup
    { [op |-> "rsi", prices |-> Closes(History(shape, n)), period |-> 14] :
          shape \in Shapes, n \in Lengths \cup {15} }

\* SMA calls: every window of at most MaxSeries prices over 10, 20 and 30
\* dollars, the empty window included.
SMAInputs ==
    { [op |-> "sma", prices |-> s] :
          s \in SeriesUpTo({10 * PriceScale, 20 * PriceScale, 30 * PriceScale},
                           MaxSeries) }

\* The last bars of the pattern windows, around 100 dollars: a hammer, a
\* doji, a long rising bar, a long falling bar and a short rising bar.
LastBars ==
    { Bar(0, 100000, 100250, 99000, 100200, 1000),
      Bar(0, 100000, 100500, 99500, 100000, 1000),
      Bar(0, 99500, 101500, 99500, 101500, 1000),
      Bar(0, 101500, 101500, 99500, 99500, 1000),
      Bar(0, 100000, 100400, 100000, 100400, 1000) }

\* The bars before the last: a falling bar, a small falling bar inside the
\* hammer's body, a rising bar and a bar without range.
PrevBars ==
    { Bar(0, 101000, 101000, 100000, 100000, 1000),
      Bar(0, 100150, 100150, 100050, 100050, 1000),
      Bar(0, 100000, 101000, 100000, 101000, 1000),
      Bar(0, 100000, 100000, 100000, 100000, 1000) }

\* The earlier bars of a pattern window: n flat bars or n rising bars.
EarlierBars(n, rising) ==
    [i \in 1..n |->
       IF rising THEN Bar(i, 100000, 100100, 100000, 100100, 1000)
       ELSE Bar(i, 100000, 100000, 100000, 100000, 1000)]

\* The windows handed to identifyPatterns: 2, 9, 10 and 20 bars (20 is what
\* the prediction passes), every pair of last bars after flat or rising
\* earlier bars.
PatternWindows ==
    { EarlierBars(n, rising) \o <<prev, last>> :
          n \in {0, 7, 8, 18}, rising \in BOOLEAN,
          prev \in PrevBars, last \in LastBars }

\* identifyPatterns calls, in pairs of windows.
PatternInputs ==
    { [op |-> "patterns", data |-> d, other |-> e] :
          d \in PatternWindows, e \in PatternWindows }

\* The bars of the short indicator calls: a rising bar, a bar that opens
\* above the others' highs, and a bar without range.
ShortBars ==
    { Bar(0, 1 * PriceScale, 3 * PriceScale, 1 * PriceScale, 2 * PriceScale, 1000),
      Bar(0, 5 * PriceScale, 6 * PriceScale, 5 * PriceScale, 5 * PriceScale, 1000),
      Bar(0, 2 * PriceScale, 2 * PriceScale, 2 * PriceScale, 2 * PriceScale, 1000) }

\* The longest bar series of the short indicator calls.
MaxShortBars == 4

\* The lengths of the histories handed to an indicator with period 14.
IndicatorLengths == Lengths \cup {13, 15}

\* Stochastic calls: every short bar series with a short period, and every
\* history with the default period 14.
StochasticInputs ==
    { [op |-> "stochastic", highs |-> Highs(d), lows |-> Lows(d),
       closes |-> Closes(d), period |-> p] :
          d \in SeriesUpTo(ShortBars, MaxShortBars), p \in {2, 3} }
    \cup
    { [op |-> "stochastic", highs |-> Highs(History(shape, n)),
       lows |-> Lows(History(shape, n)), closes |-> Closes(History(shape, n)),
       period |-> 14] :
          shape \in Shapes, n \in IndicatorLengths }

\* ATR calls: every short bar series with a short period, every history
\* with the default period 14, and the 14-bar window the prediction passes.
ATRInputs ==
    { [op |-> "atr", data |-> d, period |-> p] :
          d \in SeriesUpTo(ShortBars, MaxShortBars), p \in {1, 2, 3} }
    \cup
    { [op |-> "atr", data |-> History(shape, n), period |-> 14] :
          shape \in Shapes, n \in IndicatorLengths }
    \cup
    { [op |-> "atr", data |-> LastN(History(shape, n), 14), period |-> 14] :
          shape \in Shapes, n \in IndicatorLengths }

\* The longest series of the short support/resistance calls.
MaxLevelSeries == 6

\* The longest series with spikes and the longest ramp.
MaxPeakBars == 24

\* n flat bars with a lower spike at bars 3, 9, 15, ... and an upper spike
\* at bars 6, 12, 18, ...; the spikes grow with the bar number when growing
\* and shrink otherwise, so no two spikes of a series have the same size.
PeakHistory(n, growing) ==
    [i \in 1..n |->
       LET size == (IF growing THEN i ELSE MaxPeakBars + 1 - i) * 100
       IN  Bar(i, 100 * PriceScale,
               100 * PriceScale + (IF i % 6 = 0 THEN size ELSE 0),
               100 * PriceScale - (IF i % 6 = 3 THEN size ELSE 0),
               100 * PriceScale, 1000)]

\* n bars, each one dollar above the one before.
RampHistory(n) ==
    [i \in 1..n |->
       Bar(i, i * PriceScale, (i + 1) * PriceScale, i * PriceScale,
           (i + 1) * PriceScale, 1000)]

\* The arguments of findSupportResistanceLevels for a history.
LevelsCall(data) ==
    [op |-> "levels", highs |-> Highs(data), lows |-> Lows(data),
     prices |-> Closes(data)]

\* Support/resistance calls: every short series over three prices (the
\* highs one dollar above the lows), every history, and the spike and ramp
\* series of every length.
LevelsInputs ==
    { [op |-> "levels", highs |-> [i \in 1..Len(s) |-> s[i] + PriceScale],
       lows |-> s, prices |-> s] :
          s \in SeriesUpTo({1 * PriceScale, 2 * PriceScale, 3 * PriceScale},
                           MaxLevelSeries) }
    \cup
    { LevelsCall(History(shape, n)) : shape \in Shapes, n \in IndicatorLengths }
    \cup
    { LevelsCall(PeakHistory(n, growing)) :
          n \in 0..MaxPeakBars, growing \in BOOLEAN }
    \cup
    { LevelsCall(RampHistory(n)) : n \in 0..MaxPeakBars }

----------------------------------------------------------------------------
(* The service, its timers and provider calls, and the callers.            *)

Symbols == {"AAPL"}

Callbacks == {"cb1", "cb2"}

\* intervalMinutes values the callers pass.
IntervalChoices == {1, 15}

\* CACHE_DURATION, in milliseconds.
CACHE_DURATION == 30000

\* The clock advances in steps of 15 seconds, MaxClockSteps times at most.
ClockStep == 15 * 1000

MaxClockSteps == 2

\* Timer handles are 1..MaxTimers.
MaxTimers == 3

\* Provider calls in flight at one time.
MaxFetches == 1

\* Prediction calls in one session.
MaxCalls == 3

\* The empty Map.
EmptyMap == << >>

Has(map, key) == key \in DOMAIN map

\* map.set(key, value)
MapSet(map, key, value) ==
    [k \in DOMAIN map \cup {key} |-> IF k = key THEN value ELSE map[k]]

\* The price the provider quotes for a symbol, in 1/PriceScale dollars.
QuotePrice(symbol) == IF symbol = "MSFT" THEN 200 * PriceScale ELSE 100 * PriceScale

\* The quote the provider returns for a symbol.
Quote(symbol) == [symbol |-> symbol, price |-> QuotePrice(symbol)]

NoInput == [op |-> "none"]

NoCall == [op |-> "none"]

\* predictedPrice and predictedChange of a stock; undefined on the stocks of
\* the list.
NoPrediction == [defined |-> FALSE, price |-> 0, change |-> 0]

\* selectedStock = null
NoStock == [symbol |-> "none", price |-> 0, prediction |-> NoPrediction]

\* No prediction is being generated.
NotGenerating == [symbol |-> "none", price |-> 0, predictedPrice |-> 0]

\* The page as mounted: loadStockData is waiting for fetchMultipleStocks,
\* and checkConnection has set the status from navigator.onLine.
PageMounted(online) ==
    [stocks           |-> << >>,
     selectedStock    |-> NoStock,
     connectionStatus |-> IF online THEN "connected" ELSE "disconnected",
     load             |-> "initial",
     syncDue          |-> FALSE,
     chartDue         |-> FALSE,
     historicalData   |-> [symbol |-> "none", bars |-> 0],
     historyLoads     |-> {},
     chartData        |-> << >>,
     generating       |-> NotGenerating,
     callbacks        |-> 0]

ServiceInit ==
    /\ cache = EmptyMap
    /\ subscribers = EmptyMap
    /\ updateIntervals = EmptyMap
    /\ timers = EmptyMap
    /\ fetches = << >>
    /\ now = 0
    /\ notified = {}

Init ==
    /\ ServiceInit
    /\ predictions = << >>
    /\ input = NoInput
    /\ indicator = NoCall
    /\ page = PageMounted(TRUE)

\* The cache check of fetchRealTimeStockData: an entry younger than
\* CACHE_DURATION.
CacheFresh(symbol) ==
    Has(cache, symbol) /\ now - cache[symbol].timestamp < CACHE_DURATION

\* subscribers.forEach(callback => callback(data)) for the symbol's set, if
\* the symbol has one.
Notify(symbol) ==
    IF Has(subscribers, symbol) THEN notified \cup subscribers[symbol] ELSE notified

\* fetchRealTimeStockData(symbol) up to its first await, called with a
\* continuation that notifies the subscribers (deliver) or by a caller that
\* only reads the result.  A fresh cache entry is returned at once; else the
\* provider call goes in flight.
StartFetch(symbol, deliver) ==
    IF CacheFresh(symbol)
    THEN /\ notified' = IF deliver THEN Notify(symbol) ELSE notified
         /\ fetches' = fetches
    ELSE /\ Len(fetches) < MaxFetches
         /\ fetches' = Append(fetches, [symbol |-> symbol, deliver |-> deliver])
         /\ notified' = notified

\* A variant of startRealTimeConnection that sets the new timer without
\* clearing the one recorded for the symbol.
StartRealTimeConnectionKeeping(symbol, intervalMinutes, subs) ==
    LET cleared == timers
        old     == IF Has(updateIntervals, symbol) THEN {updateIntervals[symbol]} ELSE {}
        free    == (1..MaxTimers) \ (DOMAIN cleared \cup old)
    IN  /\ free # {}
        /\ LET handle == CHOOSE h \in free : \A g \in free : h <= g
           IN  /\ timers' = MapSet(cleared, handle,
                                   [symbol |-> symbol, intervalMinutes |-> intervalMinutes])
               /\ updateIntervals' = MapSet(updateIntervals, symbol, handle)
        /\ IF CacheFresh(symbol)
           THEN /\ notified' = IF Has(subs, symbol)
                               THEN notified \cup subs[symbol] ELSE notified
                /\ fetches' = fetches
           ELSE /\ Len(fetches) < MaxFetches
                /\ fetches' = Append(fetches, [symbol |-> symbol, deliver |-> TRUE])
                /\ notified' = notified

\* startRealTimeConnection: clear the symbol's timer, set a new one, record
\* it, and start the initial fetch.  The subscribers map is the one the
\* caller has just updated.
StartRealTimeConnection(symbol, intervalMinutes, subs) ==
    LET cleared == [h \in DOMAIN timers \ (IF Has(updateIntervals, symbol)
                                            THEN {updateIntervals[symbol]} ELSE {})
                      |-> timers[h]]
        old     == IF Has(updateIntervals, symbol) THEN {updateIntervals[symbol]} ELSE {}
        free    == (1..MaxTimers) \ (DOMAIN cleared \cup old)
    IN  /\ free # {}
        /\ LET handle == CHOOSE h \in free : \A g \in free : h <= g
           IN  /\ timers' = MapSet(cleared, handle,
                                   [symbol |-> symbol, intervalMinutes |-> intervalMinutes])
               /\ updateIntervals' = MapSet(updateIntervals, symbol, handle)
        /\ IF CacheFresh(symbol)
           THEN /\ notified' = IF Has(subs, symbol)
                               THEN notified \cup subs[symbol] ELSE notified
                /\ fetches' = fetches
           ELSE /\ Len(fetches) < MaxFetches
                /\ fetches' = Append(fetches, [symbol |-> symbol, deliver |-> TRUE])
                /\ notified' = notified

\* subscribeToRealTimeUpdates(symbol, callback, intervalMinutes)
SubscribeToRealTimeUpdates(symbol, callback, intervalMinutes) ==
    LET subs == MapSet(subscribers, symbol,
                       (IF Has(subscribers, symbol) THEN subscribers[symbol] ELSE {})
                         \cup {callback})
    IN  /\ subscribers' = subs
        /\ StartRealTimeConnection(symbol, intervalMinutes, subs)
        /\ UNCHANGED <<cache, now, predictions, input, indicator>>

\* updateSubscriptionInterval(symbol, intervalMinutes): restarts the
\* connection of a subscribed symbol, and does nothing for another.
UpdateSubscriptionInterval(symbol, intervalMinutes) ==
    /\ IF Has(subscribers, symbol)
       THEN StartRealTimeConnection(symbol, intervalMinutes, subscribers)
       ELSE UNCHANGED <<timers, updateIntervals, fetches, notified>>
    /\ UNCHANGED <<cache, subscribers, now, predictions, input, indicator>>

\* cleanup(): clears every recorded timer and empties the maps.  The log of
\* invoked callbacks starts again.
Cleanup ==
    /\ timers' = [h \in DOMAIN timers \ {updateIntervals[s] : s \in DOMAIN updateIntervals}
                    |-> timers[h]]
    /\ updateIntervals' = EmptyMap
    /\ subscribers' = EmptyMap
    /\ notified' = {}
    /\ UNCHANGED <<cache, fetches, now, predictions, input, indicator>>

\* A live timer fires: its callback fetches the quote and notifies.
TimerTick(handle) ==
    /\ Has(timers, handle)
    /\ StartFetch(timers[handle].symbol, TRUE)
    /\ UNCHANGED <<cache, subscribers, updateIntervals, timers, now,
                   predictions, input, indicator>>

\* fetchRealTimeStockData called by the page (directly or through
\* fetchMultipleStocks): the result goes to the caller only.
FetchRealTimeStockData(symbol) ==
    /\ StartFetch(symbol, FALSE)
    /\ UNCHANGED <<cache, subscribers, updateIntervals, timers, now,
                   predictions, input, indicator>>

\* A variant of the completion whose continuation calls the callbacks it
\* was started for, whatever the subscribers map holds by now.
FetchCompleteCaptured(i, outcome) ==
    /\ i \in 1..Len(fetches)
    /\ LET f == fetches[i]
       IN  /\ fetches' = [j \in 1..(Len(fetches) - 1) |->
                             IF j < i THEN fetches[j] ELSE fetches[j + 1]]
           /\ IF outcome = "data"
              THEN /\ cache' = MapSet(cache, f.symbol,
                                      [data |-> Quote(f.symbol), timestamp |-> now])
                   /\ notified' = IF f.deliver THEN notified \cup Callbacks ELSE notified
              ELSE UNCHANGED <<cache, notified>>
    /\ UNCHANGED <<subscribers, updateIntervals, timers, now,
                   predictions, input, indicator>>

\* A variant of the completion that stores the result of the provider call
\* whatever it is.
FetchCompleteStoringNull(i, outcome) ==
    /\ i \in 1..Len(fetches)
    /\ LET f == fetches[i]
       IN  /\ fetches' = [j \in 1..(Len(fetches) - 1) |->
                             IF j < i THEN fetches[j] ELSE fetches[j + 1]]
           /\ IF outcome = "data"
              THEN /\ cache' = MapSet(cache, f.symbol,
                                      [data |-> Quote(f.symbol), timestamp |-> now])
                   /\ notified' = IF f.deliver THEN Notify(f.symbol) ELSE notified
              ELSE /\ cache' = MapSet(cache, f.symbol,
                                      [data |-> [symbol |-> "null", price |-> 0],
                                       timestamp |-> now])
                   /\ notified' = notified
    /\ UNCHANGED <<subscribers, updateIntervals, timers, now,
                   predictions, input, indicator>>

\* The provider call of fetch i ends: with data, which is cached with the
\* current time and handed to the continuation, or with null or an error,
\* after which fetchRealTimeStockData returns null.
FetchComplete(i, outcome) ==
    /\ i \in 1..Len(fetches)
    /\ LET f == fetches[i]
       IN  /\ fetches' = [j \in 1..(Len(fetches) - 1) |->
                             IF j < i THEN fetches[j] ELSE fetches[j + 1]]
           /\ IF outcome = "data"
              THEN /\ cache' = MapSet(cache, f.symbol,
                                      [data |-> Quote(f.symbol), timestamp |-> now])
                   /\ notified' = IF f.deliver THEN Notify(f.symbol) ELSE notified
              ELSE UNCHANGED <<cache, notified>>
    /\ UNCHANGED <<subscribers, updateIntervals, timers, now,
                   predictions, input, indicator>>

\* Time passes.
AdvanceTime ==
    /\ now < MaxClockSteps * ClockStep
    /\ now' = now + ClockStep
    /\ UNCHANGED <<cache, subscribers, updateIntervals, timers, fetches, notified,
                   predictions, input, indicator>>

\* One record of the prediction log: the arguments, the value drawn from
\* Math.random(), the result, and whether the quote cache held an entry
\* when the call was made.
\* historyAfter is the caller's array after the call: the function and its
\* helpers read it through map, slice and indexing, which copy or leave it
\* alone, and assign to no element of it.
PredictionEntry(a, random) ==
    [currentPrice       |-> a.currentPrice,
     historicalData     |-> a.historicalData,
     historyAfter       |-> a.historicalData,
     volume             |-> a.volume,
     marketCap          |-> a.marketCap,
     timeHorizonMinutes |-> a.timeHorizonMinutes,
     random             |-> random,
     cached             |-> cache # EmptyMap,
     result             |-> calculateAdvancedPrediction(
                                a.currentPrice, a.historicalData, a.volume,
                                a.marketCap, a.timeHorizonMinutes, random)]

\* The call a chart makes during a session: a flat history of
\* 50 bars at its last close, with the random source fixed to
\* return 0.5.
SessionLengths == {50}

SessionCall(n) == PredictionCall("flat", n, 100, 2, 2000000000, 30, RatioScale \div 2)

\* A variant of the call that also empties the quote cache.
PredictEvicting(a) ==
    /\ Len(predictions) < MaxCalls
    /\ predictions' = Append(predictions, PredictionEntry(a, a.random))
    /\ cache' = EmptyMap
    /\ UNCHANGED <<subscribers, updateIntervals, timers, fetches, now, notified,
                   input, indicator>>

\* A chart calls calculateAdvancedPrediction during a session.
Predict(a) ==
    /\ Len(predictions) < MaxCalls
    /\ predictions' = Append(predictions, PredictionEntry(a, a.random))
    /\ UNCHANGED <<serviceVars, input, indicator>>

Next ==
    \/ \E s \in Symbols, c \in Callbacks, m \in IntervalChoices :
           SubscribeToRealTimeUpdates(s, c, m) /\ UNCHANGED page
    \/ \E s \in Symbols, m \in IntervalChoices :
           UpdateSubscriptionInterval(s, m) /\ UNCHANGED page
    \/ Cleanup /\ UNCHANGED page
    \/ \E h \in 1..MaxTimers : TimerTick(h) /\ UNCHANGED page
    \/ \E s \in Symbols : FetchRealTimeStockData(s) /\ UNCHANGED page
    \/ \E i \in 1..MaxFetches, o \in {"data", "null", "throw"} :
           FetchComplete(i, o) /\ UNCHANGED page
    \/ AdvanceTime /\ UNCHANGED page
    \/ \E n \in SessionLengths : Predict(SessionCall(n)) /\ UNCHANGED page

Spec == Init /\ [][Next]_vars

----------------------------------------------------------------------------
(* The service on its own, with two symbols and no prediction.             *)

ServiceSymbols == {"AAPL", "MSFT"}

NextService ==
    \/ \E s \in ServiceSymbols, c \in Callbacks, m \in IntervalChoices :
           SubscribeToRealTimeUpdates(s, c, m) /\ UNCHANGED page
    \/ \E s \in ServiceSymbols, m \in IntervalChoices :
           UpdateSubscriptionInterval(s, m) /\ UNCHANGED page
    \/ Cleanup /\ UNCHANGED page
    \/ \E h \in 1..MaxTimers : TimerTick(h) /\ UNCHANGED page
    \/ \E s \in ServiceSymbols : FetchRealTimeStockData(s) /\ UNCHANGED page
    \/ \E i \in 1..MaxFetches, o \in {"data", "null", "throw"} :
           FetchComplete(i, o) /\ UNCHANGED page
    \/ AdvanceTime /\ UNCHANGED page

SpecService == Init /\ [][NextService]_vars

----------------------------------------------------------------------------
(* The engine on its own: one call drawn from the input sets and applied.  *)

InitEngine ==
    /\ ServiceInit
    /\ predictions = << >>
    /\ indicator = NoCall
    /\ page = PageMounted(TRUE)
    /\ \/ input \in PredictionInputs
       \/ input \in FallbackInputs
       \/ input \in RSIInputs
       \/ input \in StochasticInputs
       \/ input \in ATRInputs
       \/ input \in LevelsInputs
       \/ input \in SMAInputs
       \/ input \in PatternInputs

\* The drawn prediction call is made.
PredictInput ==
    /\ input.op = "predict"
    /\ predictions = << >>
    /\ predictions' = <<PredictionEntry(input, input.random)>>
    /\ UNCHANGED <<serviceVars, input, indicator>>

\* The drawn calculateRSI call is made.
RSIInput ==
    /\ input.op = "rsi"
    /\ indicator = NoCall
    /\ indicator' = [op |-> "rsi", prices |-> input.prices, period |-> input.period,
                     value |-> calculateRSI(input.prices, input.period)]
    /\ UNCHANGED <<serviceVars, input, predictions>>

\* The drawn calculateStochastic call is made.
StochasticInput ==
    /\ input.op = "stochastic"
    /\ indicator = NoCall
    /\ indicator' = [op |-> "stochastic", highs |-> input.highs, lows |-> input.lows,
                     closes |-> input.closes, period |-> input.period,
                     value |-> calculateStochastic(input.highs, input.lows,
                                                   input.closes, input.period)]
    /\ UNCHANGED <<serviceVars, input, predictions>>

\* The drawn calculateATR call is made.
ATRInput ==
    /\ input.op = "atr"
    /\ indicator = NoCall
    /\ indicator' = [op |-> "atr", data |-> input.data, period |-> input.period,
                     value |-> calculateATR(input.data, input.period)]
    /\ UNCHANGED <<serviceVars, input, predictions>>

\* The drawn findSupportResistanceLevels call is made.
LevelsInput ==
    /\ input.op = "levels"
    /\ indicator = NoCall
    /\ indicator' = [op |-> "levels", highs |-> input.highs, lows |-> input.lows,
                     prices |-> input.prices,
                     value |-> findSupportResistanceLevels(input.highs, input.lows,
                                                           input.prices)]
    /\ UNCHANGED <<serviceVars, input, predictions>>

\* The drawn calculateSMA call is made.
SMAInput ==
    /\ input.op = "sma"
    /\ indicator = NoCall
    /\ indicator' = [op |-> "sma", prices |-> input.prices,
                     value |-> calculateSMA(input.prices)]
    /\ UNCHANGED <<serviceVars, input, predictions>>

\* The two drawn identifyPatterns calls are made.
PatternsInput ==
    /\ input.op = "patterns"
    /\ indicator = NoCall
    /\ indicator' = [op |-> "patterns", data |-> input.data, other |-> input.other,
                     value |-> identifyPatterns(input.data),
                     otherValue |-> identifyPatterns(input.other)]
    /\ UNCHANGED <<serviceVars, input, predictions>>

NextEngine ==
    \/ PredictInput /\ UNCHANGED page
    \/ RSIInput /\ UNCHANGED page
    \/ StochasticInput /\ UNCHANGED page
    \/ ATRInput /\ UNCHANGED page
    \/ LevelsInput /\ UNCHANGED page
    \/ SMAInput /\ UNCHANGED page
    \/ PatternsInput /\ UNCHANGED page

SpecEngine == InitEngine /\ [][NextEngine]_vars

----------------------------------------------------------------------------
(* The page: StockPredictor with its StockChart, on the service.  Two      *)
(* symbols stand for STOCK_SYMBOLS.  React runs the effects of a render    *)
(* before it handles the next event, so an effect that is due is the only  *)
(* page step enabled; the render between the update and its effect is a    *)
(* state of its own.  The clock stands still during the session: the      *)
(* quote of a listed stock is in the cache and fresh, so the subscribers   *)
(* are served from the cache.  The chart's timer of simulated points, the  *)
(* predicted points of the chart and the online and offline events after   *)
(* the mount are left out.                                                 *)

\* STOCK_SYMBOLS, in the order of the list.
PageSymbols == <<"AAPL", "MSFT">>

\* The chart keeps its last MaxPoints appended points (100 in the code).
MaxPoints == 2

\* handleRealTimeUpdate closures the chart may create.
MaxChartCallbacks == 3

\* Bars fetchHistoricalData may return: none, or enough for the full model.
HistoryLengths == {0, 50}

\* Values of Math.random() in the chart's prediction.
ChartRandoms == {0, RatioScale \div 2}

ChartCallback(n) == <<"chart", n>>

\* A stock of the list: a quote, without predictedPrice or predictedChange.
ListStock(symbol) ==
    [symbol |-> symbol, price |-> Quote(symbol).price, prediction |-> NoPrediction]

\* fetchMultipleStocks(symbols): every symbol is fetched with
\* fetchRealTimeStockData, which never rejects; the fulfilled non-null
\* results are returned in order.  outcomes is what the provider does for
\* each symbol that is not served from the cache.
FetchMultipleStocks(outcomes) ==
    LET got(s) == CacheFresh(s) \/ outcomes[s] = "data"
        stored == {PageSymbols[i] : i \in 1..Len(PageSymbols)}
                     \cap {s \in DOMAIN outcomes : ~CacheFresh(s) /\ outcomes[s] = "data"}
    IN  [threw  |-> FALSE,
         value  |-> SelectSeq(PageSymbols, LAMBDA s : got(s)),
         cache  |-> [s \in DOMAIN cache \cup stored |->
                       IF s \in stored THEN [data |-> Quote(s), timestamp |-> now]
                       ELSE cache[s]]]

\* loadFallbackData(): generated stocks for the first symbols.
FallbackStocks == [i \in 1..Len(PageSymbols) |-> ListStock(PageSymbols[i])]

\* handleRealTimeUpdate run n times with quotes of a symbol: each run
\* appends a point and drops the oldest beyond the limit.
RECURSIVE AppendPoints(_, _, _)
AppendPoints(chartData, point, n) ==
    IF n = 0 THEN chartData
    ELSE LET longer == Append(chartData, point)
         IN  AppendPoints(IF Len(longer) > MaxPoints THEN Tail(longer) ELSE longer,
                          point, n - 1)

QuotePoint(symbol) == [kind |-> "quote", symbol |-> symbol]

\* The callbacks registered for a symbol in a subscribers map.
Registered(subs, symbol) == IF Has(subs, symbol) THEN subs[symbol] ELSE {}

\* The page after the subscribers of a symbol were called with its quote.
Delivered(subs, symbol) ==
    [page EXCEPT !.chartData =
        AppendPoints(@, QuotePoint(symbol), Cardinality(Registered(subs, symbol)))]

\* The await of loadStockData or refreshStockData ends (part_001:88-107,
\* 137-150).  selectedStock in loadStockData is the one of the render that
\* called it, the first one: null.
LoadComplete(outcomes) ==
    /\ page.load # "none"
    /\ ~page.syncDue /\ ~page.chartDue
    /\ LET r      == FetchMultipleStocks(outcomes)
           stocks == [i \in 1..Len(r.value) |-> ListStock(r.value[i])]
           first  == page.load = "initial"
       IN  /\ cache' = r.cache
           /\ page' =
                IF r.threw
                THEN [page EXCEPT
                        !.connectionStatus = "disconnected",
                        !.load = "none",
                        !.stocks = IF first THEN FallbackStocks ELSE @,
                        !.selectedStock = IF first THEN FallbackStocks[1] ELSE @,
                        !.syncDue = first,
                        !.chartDue = first]
                ELSE [page EXCEPT
                        !.connectionStatus = "connected",
                        !.load = "none",
                        !.stocks = stocks,
                        !.selectedStock = IF first /\ Len(stocks) > 0 THEN stocks[1] ELSE @,
                        !.syncDue = TRUE,
                        !.chartDue = first /\ Len(stocks) > 0]
    /\ UNCHANGED <<subscribers, updateIntervals, timers, fetches, now, notified,
                   predictions, input, indicator>>

\* The two-minute timer calls refreshStockData.
RefreshStockData ==
    /\ page.load = "none"
    /\ ~page.syncDue /\ ~page.chartDue
    /\ page' = [page EXCEPT !.load = "refresh", !.connectionStatus = "connecting"]
    /\ UNCHANGED <<serviceVars, predictions, input, indicator>>

\* The effect on [stocks, selectedStock]: selectedStock becomes the stock of
\* the list with its symbol, if there is one.
SyncSelectedStock ==
    /\ page.syncDue
    /\ LET found == {i \in 1..Len(page.stocks) :
                        page.stocks[i].symbol = page.selectedStock.symbol}
       IN  page' = [page EXCEPT
                      !.syncDue = FALSE,
                      !.selectedStock =
                          IF page.selectedStock # NoStock /\ found # {}
                          THEN page.stocks[CHOOSE i \in found : \A j \in found : i <= j]
                          ELSE @]
    /\ UNCHANGED <<serviceVars, predictions, input, indicator>>

\* The user picks stock i of the list: setSelectedStock(stock).
SelectStock(i) ==
    /\ ~page.syncDue /\ ~page.chartDue
    /\ i \in 1..Len(page.stocks)
    /\ page.stocks[i] # page.selectedStock
    /\ page' = [page EXCEPT
                  !.selectedStock = page.stocks[i],
                  !.syncDue = TRUE,
                  !.chartDue = page.stocks[i].symbol # page.selectedStock.symbol]
    /\ UNCHANGED <<serviceVars, predictions, input, indicator>>

\* The chart's effects on [stock.symbol]: loadHistoricalData starts, and a
\* new handleRealTimeUpdate is subscribed for the symbol with the default
\* interval.  The cleanup of the effect clears the chart's own timer only.
ChartEffects ==
    /\ page.chartDue
    /\ ~page.syncDue
    /\ page.callbacks < MaxChartCallbacks
    /\ LET symbol == page.selectedStock.symbol
           subs   == MapSet(subscribers, symbol,
                            Registered(subscribers, symbol)
                              \cup {ChartCallback(page.callbacks + 1)})
           shown  == IF CacheFresh(symbol) THEN Delivered(subs, symbol) ELSE page
       IN  /\ SubscribeToRealTimeUpdates(symbol, ChartCallback(page.callbacks + 1), 15)
           /\ page' = [shown EXCEPT
                         !.chartDue = FALSE,
                         !.callbacks = @ + 1,
                         !.historyLoads = @ \cup {symbol}]

\* fetchHistoricalData ends for a symbol: the chart takes the bars as its
\* history and as its data.
HistoricalLoaded(symbol, bars) ==
    /\ symbol \in page.historyLoads
    /\ ~page.syncDue /\ ~page.chartDue
    /\ page' = [page EXCEPT
                  !.historyLoads = @ \ {symbol},
                  !.historicalData = [symbol |-> symbol, bars |-> bars],
                  !.chartData = IF bars > 0
                                THEN <<[kind |-> "history", symbol |-> symbol]>>
                                ELSE << >>]
    /\ UNCHANGED <<serviceVars, predictions, input, indicator>>

\* A polling timer fires; a quote served from the cache goes to the
\* subscribers at once.
ChartTimerTick(handle) ==
    /\ ~page.syncDue /\ ~page.chartDue
    /\ TimerTick(handle)
    /\ page' = IF CacheFresh(timers[handle].symbol)
               THEN Delivered(subscribers, timers[handle].symbol)
               ELSE page

\* The bars generatePredictions builds from chart data.
ChartBar(i, price) ==
    Bar(i, RDiv(price * 999, 1000), RDiv(price * 1002, 1000), RDiv(price * 998, 1000),
        price, 100000)

\* The history generatePredictions passes on: the loaded bars, or else the
\* chart data.
DataForPrediction(historicalData, chartData) ==
    IF historicalData.bars > 0
    THEN FlatHistory(historicalData.bars, QuotePrice(historicalData.symbol), 100000)
    ELSE [i \in 1..Len(chartData) |-> ChartBar(i, QuotePrice(chartData[i].symbol))]

\* predictedPrice and predictedChange as generatePredictions hands them to
\* onPredictionUpdate: the price in 1/MicroScale dollars, the change in
\* 1/PctScale percent of the price the prediction started from.
PredictionFor(currentPrice, finalPredictedPrice) ==
    [defined |-> TRUE,
     price   |-> finalPredictedPrice,
     change  |-> MulDiv(RDiv(finalPredictedPrice
                               - currentPrice * (MicroScale \div PriceScale),
                             MicroScale \div PriceScale),
                        100 * PctScale, currentPrice)]

\* The user clicks Predict: generatePredictions runs up to its await.  What
\* it computes after the delay depends on the stock, history and chart data
\* of this render and on Math.random() only, so the pending call is kept as
\* the symbol and price with the predicted price it will arrive at.
GeneratePredictions(random) ==
    /\ ~page.syncDue /\ ~page.chartDue
    /\ page.selectedStock # NoStock
    /\ page.generating = NotGenerating
    /\ page' = [page EXCEPT
                  !.generating =
                      [symbol         |-> page.selectedStock.symbol,
                       price          |-> page.selectedStock.price,
                       predictedPrice |->
                           calculateAdvancedPrediction(
                               page.selectedStock.price,
                               DataForPrediction(page.historicalData, page.chartData),
                               0, 0, 30, random).predictedPrice]]
    /\ UNCHANGED <<serviceVars, predictions, input, indicator>>

\* The delay of generatePredictions is over: handlePredictionUpdate stores
\* the predicted price and change on the selected stock.
PredictionReady ==
    /\ ~page.syncDue /\ ~page.chartDue
    /\ page.generating # NotGenerating
    /\ page' = [page EXCEPT
                  !.generating = NotGenerating,
                  !.selectedStock =
                      IF @ = NoStock THEN @
                      ELSE [@ EXCEPT !.prediction =
                               PredictionFor(page.generating.price,
                                             page.generating.predictedPrice)],
                  !.syncDue = TRUE]
    /\ UNCHANGED <<serviceVars, predictions, input, indicator>>

InitPage ==
    /\ ServiceInit
    /\ predictions = << >>
    /\ input = NoInput
    /\ indicator = NoCall
    /\ \E online \in BOOLEAN : page = PageMounted(online)

NextPage ==
    \/ \E o \in [{"AAPL", "MSFT"} -> {"data", "null", "throw"}] : LoadComplete(o)
    \/ RefreshStockData
    \/ SyncSelectedStock
    \/ \E i \in 1..Len(PageSymbols) : SelectStock(i)
    \/ ChartEffects
    \/ \E s \in {"AAPL", "MSFT"}, n \in HistoryLengths : HistoricalLoaded(s, n)
    \/ \E h \in 1..MaxTimers : ChartTimerTick(h)
    \/ \E r \in ChartRandoms : GeneratePredictions(r)
    \/ PredictionReady

SpecPage == InitPage /\ [][NextPage]_vars

----------------------------------------------------------------------------
(* Properties.                                                             *)

\* The prediction calls made so far.
Calls == { predictions[i] : i \in 1..Len(predictions) }

\* A well-formed history: positive prices, low <= open, close <= high.
WellFormed(history) ==
    \A i \in 1..Len(history) :
        LET b == history[i]
        IN  /\ b.low > 0
            /\ b.low <= b.open /\ b.low <= b.close
            /\ b.open <= b.high /\ b.close <= b.high

\* The place of a signal string in the order of the sentiment analysis.
SignalRank(signal) ==
    CASE signal \in {"Bullish MA crossover", "Bearish MA crossover"} -> 1
      [] signal \in {"Bullish EMA trend", "Bearish EMA trend"} -> 2
      [] signal \in {"Overbought (RSI > 70)", "Oversold (RSI < 30)"} -> 3
      [] signal \in {"Bullish MACD crossover", "Bearish MACD crossover"} -> 4
      [] signal \in {"Overbought (Stochastic)", "Oversold (Stochastic)"} -> 5
      [] signal \in {"High volume confirmation", "Low volume warning"} -> 6
      [] signal = "Near support level" -> 7
      [] signal = "Near resistance level" -> 8
      [] OTHER -> 9

\* C1: every call with fewer than 50 bars (the empty history included)
\* returns confidence exactly 0.3 and the signals list
\* ["Insufficient historical data"], whatever the other arguments are.
C1_ShortHistoryFallback ==
    \A e \in Calls :
        Len(e.historicalData) < 50 =>
            /\ e.result.confidence = Num(3 * (RatioScale \div 10))
            /\ e.result.signals = <<"Insufficient historical data">>

\* A call on 49 bars with a nonzero volume has returned the fallback.
C1_Witness ==
    \E e \in Calls :
        /\ Len(e.historicalData) = 49
        /\ e.volume > 0
        /\ e.result.signals = <<"Insufficient historical data">>

\* C2: the returned confidence is always a number within [0.1, 0.95].
C2_ConfidenceInRange ==
    \A e \in Calls :
        /\ IsNum(e.result.confidence)
        /\ e.result.confidence.v >= RatioScale \div 10
        /\ e.result.confidence.v <= 95 * (RatioScale \div 100)

\* C3: the returned signals are never more than 5 and, in the full model,
\* exactly the first min(5, n) of the n collected signals, which were
\* collected in the order MA, EMA, RSI, MACD, Stochastic, volume, support,
\* resistance, patterns.
C3_SignalsAreFirstFive ==
    \A e \in Calls :
        LET signals   == e.result.signals
            collected == e.result.collected
        IN  /\ Len(signals) <= 5
            /\ e.result.full =>
                 /\ Len(signals) = Min2(5, Len(collected))
                 /\ \A i \in 1..Len(signals) : signals[i] = collected[i]
                 /\ \A i \in 1..(Len(collected) - 1) :
                        SignalRank(collected[i]) <= SignalRank(collected[i + 1])

\* A full-model call collected more than five signals and returned five.
C3_Witness ==
    \E e \in Calls :
        /\ e.result.full
        /\ Len(e.result.collected) > 5
        /\ Len(e.result.signals) = 5

\* Two log entries made with the same arguments.
SameArguments(e, f) ==
    /\ e.currentPrice = f.currentPrice
    /\ e.historicalData = f.historicalData
    /\ e.volume = f.volume
    /\ e.marketCap = f.marketCap
    /\ e.timeHorizonMinutes = f.timeHorizonMinutes

C5_TrendThresholds ==
    \A e \in Calls :
        e.result.full =>
            LET score == e.result.sentimentScore
                bound == RatioScale \div 10
            IN  /\ e.result.trend = "bullish" <=> score > bound
                /\ e.result.trend = "bearish" <=> score < -bound
                /\ e.result.trend = "neutral" <=> (score >= -bound /\ score <= bound)

\* A full-model call ended with a score of exactly 0.1 and is neutral.
C5_Witness ==
    \E e \in Calls :
        /\ e.result.full
        /\ e.result.sentimentScore = RatioScale \div 10
        /\ e.result.trend = "neutral"

\* C6: predictedPrice is positive for every call with a positive current
\* price and a well-formed history.
C6_PredictedPricePositive ==
    \A e \in Calls :
        (e.currentPrice > 0 /\ WellFormed(e.historicalData)) =>
            e.result.predictedPrice > 0

\* The flat scenario: 60 bars with open = high = low = close = 100 and
\* volume 100000, current price 100, market cap 2e9, horizon 30 minutes.
FlatScenario(e) ==
    /\ Len(e.historicalData) = 60
    /\ \A i \in 1..60 :
          LET b == e.historicalData[i]
          IN  /\ b.open = 100 * PriceScale /\ b.high = 100 * PriceScale
              /\ b.low = 100 * PriceScale /\ b.close = 100 * PriceScale
              /\ b.volume = 100000
    /\ e.currentPrice = 100 * PriceScale
    /\ e.marketCap = 2000000000
    /\ e.timeHorizonMinutes = 30

\* C7: in the flat scenario the prediction is about 100 (within a cent),
\* the trend is neutral and the confidence is at most 0.95.
C7_FlatScenarioNeutral ==
    \A e \in Calls :
        FlatScenario(e) =>
            /\ Abs(e.result.predictedPrice - 100 * MicroScale) <= MicroScale \div 100
            /\ e.result.trend = "neutral"
            /\ IsNum(e.result.confidence)
            /\ e.result.confidence.v <= 95 * (RatioScale \div 100)

\* The rising scenario: 60 bars, every close 1% above the previous one, and
\* the current price equal to the last close.
RisingScenario(e) ==
    /\ Len(e.historicalData) = 60
    /\ \A i \in 2..60 :
          e.historicalData[i].close = RDiv(e.historicalData[i - 1].close * 101, 100)
    /\ e.currentPrice = e.historicalData[60].close

\* C8: in the rising scenario the trend is bullish and predictedPrice is
\* strictly greater than the current price.
C8_RisingScenarioHigher ==
    \A e \in Calls :
        RisingScenario(e) =>
            /\ e.result.trend = "bullish"
            /\ e.result.predictedPrice > e.currentPrice * (MicroScale \div PriceScale)

\* C9: the RSI of a series with fewer than period + 1 points is exactly 50.
C9_ShortSeriesRSI ==
    (indicator.op = "rsi" /\ Len(indicator.prices) < indicator.period + 1) =>
        indicator.value = 50 * PctScale

\* calculateRSI has answered 50 for a series of exactly period = 14 points.
C9_Witness ==
    /\ indicator.op = "rsi"
    /\ indicator.period = 14
    /\ Len(indicator.prices) = 14
    /\ indicator.value = 50 * PctScale

\* The last period price changes of a series contain no decrease.
NoDecrease(prices, period) ==
    \A k \in (Len(prices) - period)..(Len(prices) - 1) : prices[k + 1] >= prices[k]

\* C10: for a series of at least period + 1 points whose last period
\* changes contain no decrease, RSI is exactly 100, a flat series included.
C10_NoLossRSI ==
    (/\ indicator.op = "rsi"
     /\ Len(indicator.prices) >= indicator.period + 1
     /\ NoDecrease(indicator.prices, indicator.period)) =>
        indicator.value = 100 * PctScale

\* calculateRSI has answered 100 for a flat series of at least period + 1
\* points.
C10_Witness ==
    /\ indicator.op = "rsi"
    /\ Len(indicator.prices) >= indicator.period + 1
    /\ \A k \in 1..(Len(indicator.prices) - 1) :
          indicator.prices[k + 1] = indicator.prices[k]
    /\ indicator.value = 100 * PctScale

\* C11: calculateStochastic returns exactly {k: 50, d: 50} whenever the
\* series has fewer bars than the period, whatever the bars are.
C11_ShortSeriesStochastic ==
    (indicator.op = "stochastic" /\ Len(indicator.highs) < indicator.period)
        => (indicator.value = [k |-> Num(50 * PctScale), d |-> Num(50 * PctScale)])

\* A call with one bar fewer than the period, on bars that have a range.
C11_Witness ==
    /\ indicator.op = "stochastic"
    /\ Len(indicator.highs) = indicator.period - 1
    /\ \E i \in 1..Len(indicator.highs) : indicator.highs[i] > indicator.lows[i]
    /\ indicator.value.k = Num(50 * PctScale)
    /\ indicator.value.d = Num(50 * PctScale)

\* The true range of bar i (i >= 2): the largest of high - low,
\* |high - previous close| and |low - previous close|.
TrueRangeAt(data, i) ==
    Max2(data[i].high - data[i].low,
         Max2(Abs(data[i].high - data[i - 1].close),
              Abs(data[i].low - data[i - 1].close)))

\* The first bar of the trailing period bars that has a previous bar.
FirstRanged(data, period) == Max2(2, Len(data) - period + 1)

\* The sum of the true ranges of the trailing period bars.
TrailingRangeSum(data, period) ==
    FoldRange(LAMBDA a, i : a + TrueRangeAt(data, i),
              FirstRanged(data, period), Len(data), 0)

StrictlyIncreasing(s) == \A i \in 1..(Len(s) - 1) : s[i] < s[i + 1]

\* C13: on highs and lows that are both strictly increasing, of any length,
\* findSupportResistanceLevels returns an empty support list and an empty
\* resistance list.
C13_MonotonicNoLevels ==
    (/\ indicator.op = "levels"
     /\ StrictlyIncreasing(indicator.highs)
     /\ StrictlyIncreasing(indicator.lows))
        => (/\ indicator.value.support = << >>
            /\ indicator.value.resistance = << >>)

\* A strictly increasing series long enough for the scan to test a bar.
C13_Witness ==
    /\ indicator.op = "levels"
    /\ Len(indicator.prices) >= 5
    /\ StrictlyIncreasing(indicator.highs)
    /\ StrictlyIncreasing(indicator.lows)
    /\ indicator.value.support = << >>
    /\ indicator.value.resistance = << >>

RECURSIVE WindowSum(_)
WindowSum(w) == IF w = << >> THEN 0 ELSE w[1] + WindowSum(Tail(w))

\* C15: calculateSMA of a non-empty window is the arithmetic mean of its
\* elements, to the nearest 1/PriceScale and exactly when the mean is a
\* multiple of it (20 for 10, 20, 30); of the empty window it is 0.
C15_SMAMean ==
    indicator.op = "sma" =>
        LET w == indicator.prices
        IN  /\ w = << >> => indicator.value = 0
            /\ w # << >> =>
                   Abs(indicator.value * Len(w) - WindowSum(w)) * 2 <= Len(w)
            /\ w = <<10 * PriceScale, 20 * PriceScale, 30 * PriceScale>> =>
                   indicator.value = 20 * PriceScale

\* The call SMA([10, 20, 30]) returned 20.
C15_Witness ==
    /\ indicator.op = "sma"
    /\ indicator.prices = <<10 * PriceScale, 20 * PriceScale, 30 * PriceScale>>
    /\ indicator.value = 20 * PriceScale

\* The call on the empty window returned 0.
C15_WitnessEmpty ==
    /\ indicator.op = "sma"
    /\ indicator.prices = << >>
    /\ indicator.value = 0

\* The contribution of the MA crossover to the score of call c, in
\* 1/RatioScale: +0.3 if price > sma20 > sma50, -0.3 if price < sma20 <
\* sma50, else 0.
MAPart(c) ==
    LET l == c.result.locals
    IN  IF c.currentPrice > l.sma20 /\ l.sma20 > l.sma50 THEN 3000
        ELSE IF c.currentPrice < l.sma20 /\ l.sma20 < l.sma50 THEN -3000
        ELSE 0

\* EMA trend: +0.2 if ema12 > ema26, otherwise -0.2.
EMAPart(c) ==
    IF c.result.locals.ema12 > c.result.locals.ema26 THEN 2000 ELSE -2000

\* RSI: -0.25 above 70, +0.25 below 30, else 0.
RSIPart(c) ==
    IF c.result.locals.rsi > 70 * PctScale THEN -2500
    ELSE IF c.result.locals.rsi < 30 * PctScale THEN 2500
    ELSE 0

\* MACD: +0.2 if macd > signal and histogram > 0, -0.2 if macd < signal and
\* histogram < 0, else 0.
MACDPart(c) ==
    LET m == c.result.locals.macd
    IN  IF m.macd > m.signal /\ m.histogram > 0 THEN 2000
        ELSE IF m.macd < m.signal /\ m.histogram < 0 THEN -2000
        ELSE 0

\* Stochastic: -0.15 if %K and %D are both above 80, +0.15 if both are
\* below 20, else 0 (a NaN is neither).
StochasticPart(c) ==
    LET st == c.result.locals.stochastic
    IN  IF /\ st.k.kind = "inf" \/ (st.k.kind = "num" /\ st.k.v > 80 * PctScale)
           /\ st.d.kind = "inf" \/ (st.d.kind = "num" /\ st.d.v > 80 * PctScale)
        THEN -1500
        ELSE IF /\ st.k.kind = "ninf" \/ (st.k.kind = "num" /\ st.k.v < 20 * PctScale)
                /\ st.d.kind = "ninf" \/ (st.d.kind = "num" /\ st.d.v < 20 * PctScale)
        THEN 1500
        ELSE 0

\* The five contributions of call c, in the order the code adds them.
IndicatorParts(c) ==
    <<MAPart(c), EMAPart(c), RSIPart(c), MACDPart(c), StochasticPart(c)>>

\* C16: in the full model the score before the volume step is the sum of
\* the MA, EMA, RSI, MACD and Stochastic contributions, the EMA
\* contribution is never 0, and the signals collected so far are exactly
\* one string for each nonzero contribution.
C16_IndicatorSum ==
    \A c \in Calls :
        c.result.full =>
            LET parts == IndicatorParts(c)
            IN  /\ c.result.locals.indicatorScore
                       = parts[1] + parts[2] + parts[3] + parts[4] + parts[5]
                /\ parts[2] # 0
                /\ Len(c.result.locals.indicatorSignals)
                       = Cardinality({i \in 1..5 : parts[i] # 0})

\* A full-model call in which at least three contributions are nonzero, one
\* of them negative, and at least one is 0.
C16_Witness ==
    \E c \in Calls :
        /\ c.result.full
        /\ Cardinality({i \in 1..5 : IndicatorParts(c)[i] # 0}) >= 3
        /\ \E i \in 1..5 : IndicatorParts(c)[i] < 0
        /\ \E i \in 1..5 : IndicatorParts(c)[i] = 0
        /\ c.result.locals.indicatorScore # 0

\* Some level is within 2% of the (positive) price.
NearLevel(levels, price) ==
    \E i \in 1..Len(levels) : Abs(price - levels[i]) * 50 < price

\* The support/resistance term of call c: +0.1 near a support level and
\* -0.1 near a resistance level.
LevelsPart(c) ==
    (IF NearLevel(c.result.locals.supportResistance.support, c.currentPrice)
     THEN 1000 ELSE 0)
    - (IF NearLevel(c.result.locals.supportResistance.resistance, c.currentPrice)
       THEN 1000 ELSE 0)

\* The pattern term of call c: plus the strength of every bullish pattern,
\* minus the strength of every bearish one.
PatternsPart(c) ==
    LET ps == c.result.locals.patterns
        part(p) == IF p.type = "bullish" THEN p.strength
                   ELSE IF p.type = "bearish" THEN -p.strength ELSE 0
    IN  FoldRange(LAMBDA a, i : a + part(ps[i]), 1, Len(ps), 0)

\* The sum of the five indicator contributions of call c.
IndicatorSum(c) ==
    MAPart(c) + EMAPart(c) + RSIPart(c) + MACDPart(c) + StochasticPart(c)

\* The number of volume signals among the collected signals of call c.
VolumeSignalCount(c) ==
    Cardinality({i \in 1..Len(c.result.collected) :
                    c.result.collected[i] \in {"High volume confirmation",
                                               "Low volume warning"}})

\* C17: the volume factor is applied once, to the sum of the five indicator
\* contributions and before the support/resistance and pattern terms: the
\* final score is 1.2 times that sum plus the two unscaled terms when the
\* volume ratio is above 1.5, 0.8 times it plus them when the ratio is
\* below 0.5, and the plain sum plus them, with no volume signal, when
\* 0.5 <= ratio <= 1.5.
C17_VolumeScaling ==
    \A c \in Calls :
        (c.result.full /\ c.currentPrice > 0
           /\ c.result.locals.volumeRatio.kind # "nan") =>
            LET ratio == c.result.locals.volumeRatio
                rest  == LevelsPart(c) + PatternsPart(c)
                high  == ratio.kind = "inf" \/ (ratio.kind = "num" /\ ratio.v > 15000)
                low   == ratio.kind = "ninf" \/ (ratio.kind = "num" /\ ratio.v < 5000)
            IN  /\ high => /\ c.result.sentimentScore * 10 = 12 * IndicatorSum(c) + 10 * rest
                           /\ VolumeSignalCount(c) = 1
                /\ low  => /\ c.result.sentimentScore * 10 = 8 * IndicatorSum(c) + 10 * rest
                           /\ VolumeSignalCount(c) = 1
                /\ (~high /\ ~low) =>
                           /\ c.result.sentimentScore = IndicatorSum(c) + rest
                           /\ VolumeSignalCount(c) = 0

\* A call with a volume ratio above 1.5 whose support/resistance or pattern
\* term is not 0, so that scaling before or after that term differ.
C17_Witness ==
    \E c \in Calls :
        /\ c.result.full
        /\ c.result.locals.volumeRatio.kind = "num"
        /\ c.result.locals.volumeRatio.v > 15000
        /\ LevelsPart(c) + PatternsPart(c) # 0
        /\ IndicatorSum(c) # 0

\* Calls with a volume ratio of exactly 0.5 and of exactly 1.5 and a nonzero
\* score, left unscaled.
C17_WitnessBoundary ==
    \E c \in Calls :
        /\ c.result.full
        /\ c.result.locals.volumeRatio \in {Num(5000), Num(15000)}
        /\ IndicatorSum(c) # 0
        /\ c.result.sentimentScore = IndicatorSum(c) + LevelsPart(c) + PatternsPart(c)

\* The indices the scan examines: 2 .. n - 3 counted from 0, that is
\* 3 .. n - 2 counted from 1.
Scanned(n) == 3..(n - 2)

\* Bar i is a support hit: its low is strictly below the lows one and two
\* bars before and after it.
SupportHit(lows, i) ==
    \A d \in {-2, -1, 1, 2} : lows[i] < lows[i + d]

\* Bar i is a resistance hit: its high is strictly above those four highs.
ResistanceHit(highs, i) ==
    \A d \in {-2, -1, 1, 2} : highs[i] > highs[i + d]

SupportHits(call) ==
    {i \in Scanned(Len(call.prices)) : SupportHit(call.lows, i)}

ResistanceHits(call) ==
    {i \in Scanned(Len(call.prices)) : ResistanceHit(call.highs, i)}

\* The members of hits with fewer than three larger members.
Latest3(hits) == {i \in hits : Cardinality({k \in hits : k > i}) < 3}

\* levels holds, in some order, the values of series at the indices at.
HoldsValuesAt(levels, series, at) ==
    /\ Len(levels) = Cardinality(at)
    /\ \E f \in [1..Len(levels) -> at] :
          /\ \A j, k \in 1..Len(levels) : f[j] = f[k] => j = k
          /\ \A j \in 1..Len(levels) : levels[j] = series[f[j]]

\* C18: the scan examines the indices 2 .. n - 3; a bar is a support hit
\* iff its low is strictly below the four neighbouring lows and a
\* resistance hit iff its high is strictly above the four neighbouring
\* highs; each returned list has at most 3 levels, those of the 3 hits with
\* the largest indices.
C18_LatestThreeHits ==
    indicator.op = "levels" =>
        /\ Len(indicator.value.support) <= 3
        /\ Len(indicator.value.resistance) <= 3
        /\ HoldsValuesAt(indicator.value.support, indicator.lows,
                         Latest3(SupportHits(indicator)))
        /\ HoldsValuesAt(indicator.value.resistance, indicator.highs,
                         Latest3(ResistanceHits(indicator)))

\* A series with more than three support hits whose oldest hit, which is
\* dropped, is lower than every returned level, and with a hit at the
\* first and at the last scanned index.
C18_Witness ==
    /\ indicator.op = "levels"
    /\ Cardinality(SupportHits(indicator)) > 3
    /\ 3 \in SupportHits(indicator)
    /\ Len(indicator.prices) - 2 \in SupportHits(indicator)
    /\ Len(indicator.value.support) = 3
    /\ \A j \in 1..3 : indicator.lows[3] < indicator.value.support[j]

\* The member of hits with exactly r - 1 larger members.
FromLatest(hits, r) ==
    CHOOSE i \in hits : Cardinality({k \in hits : k > i}) = r - 1

\* levels lists the values of series at the latest hits, latest first.
RecentFirst(levels, series, hits) ==
    /\ Len(levels) <= Cardinality(hits)
    /\ \A j \in 1..Len(levels) : levels[j] = series[FromLatest(hits, j)]

\* levels lists the values of series at the latest hits, latest last.
RecentLast(levels, series, hits) ==
    /\ Len(levels) <= Cardinality(hits)
    /\ \A j \in 1..Len(levels) :
          levels[j] = series[FromLatest(hits, Len(levels) + 1 - j)]

\* C19 as stated: each returned list is ordered most-recent-first, the
\* level found at the largest bar index first.
C19_RecentFirst ==
    indicator.op = "levels" =>
        /\ RecentFirst(indicator.value.support, indicator.lows,
                       SupportHits(indicator))
        /\ RecentFirst(indicator.value.resistance, indicator.highs,
                       ResistanceHits(indicator))

\* C19 as the code has it: each returned list is in bar order, oldest
\* first, and the level found at the largest bar index comes last.
C19_RecentLast ==
    indicator.op = "levels" =>
        /\ RecentLast(indicator.value.support, indicator.lows,
                      SupportHits(indicator))
        /\ RecentLast(indicator.value.resistance, indicator.highs,
                      ResistanceHits(indicator))

\* A call that returned three support and three resistance levels, all
\* different, so that the order shows.
C19_Witness ==
    /\ indicator.op = "levels"
    /\ Len(indicator.value.support) = 3
    /\ Len(indicator.value.resistance) = 3
    /\ Cardinality({indicator.value.support[j] : j \in 1..3}) = 3
    /\ Cardinality({indicator.value.resistance[j] : j \in 1..3}) = 3
    /\ indicator.value.support[3]
           = indicator.lows[FromLatest(SupportHits(indicator), 1)]

\* The highest high equals the lowest low over the trailing period bars of
\* a calculateStochastic call.
ZeroRange(call) ==
    /\ Len(call.highs) >= call.period
    /\ \A i, j \in (Len(call.highs) - call.period + 1)..Len(call.highs) :
          call.highs[i] = call.lows[j]

\* C20: divisions by zero are guarded: on a zero high-low range over the
\* trailing period calculateStochastic returns defined numbers for %K and
\* %D, as calculateRSI returns 100 when the average loss is 0.
C20_ZeroDivisionGuards ==
    /\ (indicator.op = "stochastic" /\ ZeroRange(indicator)) =>
           (IsNum(indicator.value.k) /\ IsNum(indicator.value.d))
    /\ (/\ indicator.op = "rsi"
        /\ Len(indicator.prices) >= indicator.period + 1
        /\ NoDecrease(indicator.prices, indicator.period)) =>
           indicator.value = 100 * PctScale

\* The last n bars of two windows are the same bars (timestamps aside).
SameLastBars(d, e, n) ==
    /\ Len(d) >= n /\ Len(e) >= n
    /\ \A k \in 0..(n - 1) :
          LET a == d[Len(d) - k]
              b == e[Len(e) - k]
          IN  /\ a.open = b.open /\ a.high = b.high
              /\ a.low = b.low /\ a.close = b.close

\* The findings of a list that have one of the given names.
Findings(patterns, names) ==
    {patterns[i].name : i \in 1..Len(patterns)} \cap names

\* C21 as stated: two windows with the same final two bars get the same
\* findings, however many bars each window holds.
C21_LastTwoBarsDecide ==
    (indicator.op = "patterns" /\ SameLastBars(indicator.data, indicator.other, 2))
        => indicator.value = indicator.otherValue

\* C21 with the length test of the code: a window of fewer than 10 bars has
\* no findings; two windows of at least 10 bars with the same final two
\* bars get the same findings, and with the same final bar the same Hammer
\* and Doji findings.
C21_LastTwoBarsDecideFrom10 ==
    indicator.op = "patterns" =>
        /\ Len(indicator.data) < 10 => indicator.value = << >>
        /\ (Len(indicator.data) >= 10 /\ Len(indicator.other) >= 10) =>
              /\ SameLastBars(indicator.data, indicator.other, 2)
                     => indicator.value = indicator.otherValue
              /\ SameLastBars(indicator.data, indicator.other, 1)
                     => Findings(indicator.value, {"Hammer", "Doji"})
                            = Findings(indicator.otherValue, {"Hammer", "Doji"})

\* Two windows of 10 and of 20 bars with different earlier bars and the same
\* final two bars, found to be a hammer in a bullish engulfing.
C21_Witness ==
    /\ indicator.op = "patterns"
    /\ Len(indicator.data) = 10 /\ Len(indicator.other) = 20
    /\ indicator.data[1] # indicator.other[1]
    /\ SameLastBars(indicator.data, indicator.other, 2)
    /\ Findings(indicator.value, {"Hammer", "Bullish Engulfing"})
           = {"Hammer", "Bullish Engulfing"}
    /\ indicator.value = indicator.otherValue

\* A price in 1/PriceScale dollars, in the 1/MicroScale dollars of a
\* returned predictedPrice.
InMicro(price) == price * (MicroScale \div PriceScale)

\* C22: below 50 bars and for a positive current price, predictedPrice
\* differs from currentPrice by at most 1% of currentPrice.
C22_FallbackWithinOnePercent ==
    \A e \in Calls :
        (Len(e.historicalData) < 50 /\ e.currentPrice > 0) =>
            Abs(e.result.predictedPrice - InMicro(e.currentPrice)) * 100
                <= InMicro(e.currentPrice)

\* A fallback call with Math.random() = 0 whose predictedPrice is exactly 1%
\* below the current price.
C22_Witness ==
    \E e \in Calls :
        /\ Len(e.historicalData) < 50
        /\ e.random = 0
        /\ e.currentPrice > 0
        /\ (InMicro(e.currentPrice) - e.result.predictedPrice) * 100
               = InMicro(e.currentPrice)

C23_WitnessAbsorbed ==
    \E e \in Calls :
        /\ Len(e.historicalData) < 50
        /\ e.currentPrice > 0
        /\ e.random > RatioScale \div 2
        /\ e.result.trend = "bullish"
        /\ e.result.predictedPrice = InMicro(e.currentPrice)

\* The live timers that poll symbol s.
TimersOf(s) == {h \in DOMAIN timers : timers[h].symbol = s}

\* C24: each symbol has at most one live polling timer, the one recorded
\* in updateIntervals for it, and when nothing is recorded (after cleanup)
\* no timer is live.
C24_OneTimerPerSymbol ==
    /\ \A s \in ServiceSymbols :
          /\ Cardinality(TimersOf(s)) <= 1
          /\ TimersOf(s) = IF Has(updateIntervals, s) THEN {updateIntervals[s]} ELSE {}
    /\ updateIntervals = EmptyMap => timers = EmptyMap

\* Both symbols are polled, one of them by a timer set after its first
\* timer was cleared.
C24_Witness ==
    /\ \A s \in ServiceSymbols : Cardinality(TimersOf(s)) = 1
    /\ Has(updateIntervals, "AAPL") /\ Has(updateIntervals, "MSFT")
    /\ updateIntervals["MSFT"] = 1
    /\ updateIntervals["AAPL"] = 2
    /\ timers[2].intervalMinutes = 1

\* cleanup ran while a fetch started for subscribers was in flight: no
\* subscriber, no timer.
C24_WitnessCleanup ==
    /\ \E i \in 1..Len(fetches) : fetches[i].deliver
    /\ subscribers = EmptyMap
    /\ timers = EmptyMap

\* The callbacks subscribed to some symbol.
Subscribed == UNION {subscribers[s] : s \in DOMAIN subscribers}

CallEnded == Len(fetches') = Len(fetches) - 1

\* The callbacks invoked in this step.
Invoked == notified' \ notified

\* What a step may do to the cache and with it: the cache changes only
\* when a provider call ends with data, by that symbol's entry, stamped with
\* the current time; a call that ends otherwise leaves the cache as it was
\* and hands its caller nothing; and subscribers are served without a
\* provider call only from an entry younger than CACHE_DURATION.
CacheStep ==
    /\ (cache' # cache) =>
          /\ CallEnded
          /\ \E i \in 1..Len(fetches) :
                cache' = MapSet(cache, fetches[i].symbol,
                                [data |-> Quote(fetches[i].symbol), timestamp |-> now])
    /\ (CallEnded /\ \A s \in DOMAIN cache' : cache'[s].timestamp # now) =>
          (cache' = cache /\ notified' = notified)
    /\ (Invoked # {} /\ fetches' = fetches) =>
          \E s \in DOMAIN cache :
             /\ Has(subscribers', s)
             /\ Invoked \subseteq subscribers'[s]
             /\ now - cache[s].timestamp < CACHE_DURATION

\* C26: a cache entry holds the quote of its symbol and the time of the
\* provider call that returned it; failed and empty results are never
\* stored, and a cached quote is served only while younger than
\* CACHE_DURATION.
C26_CacheHoldsSuccessfulFetches ==
    /\ [](\A s \in DOMAIN cache :
             cache[s].data = Quote(s) /\ cache[s].timestamp <= now)
    /\ [][CacheStep]_vars

\* An entry of AAPL is CACHE_DURATION old, and a provider call for AAPL is in
\* flight next to it.
C26_Witness ==
    /\ Has(cache, "AAPL")
    /\ now - cache["AAPL"].timestamp = CACHE_DURATION
    /\ \E i \in 1..Len(fetches) : fetches[i].symbol = "AAPL"

\* The prediction fits a stock of this price: its change is the percent
\* difference between its price and the stock's price, as generatePredictions
\* computes it from the stock it was asked for.
ComputedFrom(prediction, price) ==
    prediction.change =
        MulDiv(RDiv(prediction.price - price * (MicroScale \div PriceScale),
                    MicroScale \div PriceScale),
               100 * PctScale, price)

\* C27: the prediction stored on the selected stock was computed for that
\* stock, from its price, also when another stock was selected while the
\* computation was pending.
C27_PredictionOnItsStock ==
    page.selectedStock.prediction.defined =>
        ComputedFrom(page.selectedStock.prediction, page.selectedStock.price)

\* C28: while the same symbol stays selected, a step does not take the
\* stored prediction off the selected stock.
C28_PredictionStays ==
    [][(/\ page.selectedStock.prediction.defined
        /\ page'.selectedStock.symbol = page.selectedStock.symbol)
          => page'.selectedStock.prediction.defined]_vars

\* A step appended a quote to the chart data.
QuoteAppended ==
    /\ page'.chartData # page.chartData
    /\ Len(page'.chartData) > 0
    /\ page'.chartData[Len(page'.chartData)].kind = "quote"

\* C29: a quote appended to the chart data is a quote of the displayed
\* symbol, and no symbol has more than one callback of the chart
\* registered, however often the user switches.
C29_OnlyDisplayedSymbolReachesChart ==
    /\ [](\A s \in DOMAIN subscribers : Cardinality(subscribers[s]) <= 1)
    /\ [][QuoteAppended =>
             page'.chartData[Len(page'.chartData)].symbol = page'.selectedStock.symbol]_vars

\* C30: when the initial load ends and no quote was obtained, the status is
\* 'disconnected', the fallback stocks are the list and the first of them
\* is selected.
C30_FailedLoadFallsBack ==
    [][(page.load = "initial" /\ page'.load = "none" /\ cache' = EmptyMap) =>
          /\ page'.connectionStatus = "disconnected"
          /\ page'.stocks = FallbackStocks
          /\ page'.selectedStock = FallbackStocks[1]]_vars

====
